---- MODULE Spec2Model ----
(***************************************************************************)
(* Print-Automation: the batch e-mail dispatcher                           *)
(* (src/utils/email_handler.py, EmailHandler.send_batch_emails) and the    *)
(* document generator (src/utils/document_processor.py,                    *)
(* DocumentProcessor).                                                     *)
(*                                                                         *)
(* One call of send_batch_emails is a walk of pc through the lines of the  *)
(* function; the SMTP server, the progress callback and time.sleep are     *)
(* the environment and may raise wherever Python lets them raise.          *)
(***************************************************************************)
EXTENDS Integers, Sequences, FiniteSets, TLC

\* ------------------------------------------------------------------ bounds

\* Longest email_data_list handed to send_batch_emails.
MaxJobs == 3

\* ------------------------------------------------------- the dispatcher's data

\* A job that carries no "row_index" key (email_data.get("row_index", idx)).
NoRowIndex == <<>>

\* No exception is being propagated.
NoExc == "none"

\* Recipient addresses of the jobs.
Emails == {"a@x.org", "b@x.org"}

\* The values of a job's row_index: absent, or <<r>> for the index r of a data
\* row. The row index is the caller's and need not be the position in the list.
RowIndexes == {NoRowIndex, <<0>>, <<7>>}

\* A send job, cut down to the keys the dispatcher's bookkeeping reads.
Job == [to_email : Emails, row_index : RowIndexes]

\* The lists a caller may hand over: every list of at most MaxJobs jobs.
JobLists == UNION {[1..n -> Job] : n \in 0..MaxJobs}

\* What a job's try block can raise: create_message fails, the server
\* refuses the message and stays connected, or the connection is gone.
JobErrors == {"build failed", "recipient refused", "server disconnected"}

\* delay_seconds: a negative delay makes time.sleep raise ValueError.
Delays == {-1, 1}

VARIABLES
    \* send_batch_emails: arguments and locals
    email_data_list,    \* the jobs, a sequence indexed 1..n (job at idx is [idx+1])
    progress_callback,  \* TRUE when a callback was passed, FALSE for None
    delay_seconds,
    results,            \* the Batch Result under construction
    idx,                \* loop index, 0-based as in enumerate
    pc,                 \* the line the call is at
    exc,                \* the exception that left the with block, or NoExc
    server,             \* "none" | "open" | "closed": the SMTP connection
    \* what the environment saw, in order
    connects,           \* smtplib.SMTP(...) constructions
    starttlsCalls,      \* server.starttls() calls
    logins,             \* server.login() calls
    attempts,           \* idx of every job whose try block was entered
    transmitted,        \* idx of every message the server accepted
    failures,           \* [idx, err] of every job whose try block raised
    sleeps,             \* idx after which time.sleep returned
    callbacks,          \* arguments of every progress_callback invocation
    exits,              \* runs of SMTP.__exit__ (QUIT, then close)
    cause,              \* the first exception that left the loop or the connection
                        \* set-up, or NoExc; exc is the one the handler sees
    \* DocumentProcessor
    given,              \* the bytes the processor was constructed from
    processor,          \* the processor: template_bytes, template_doc, placeholders
    generated,          \* the generate_document calls so far: arguments and bytes
    \* the mapping step of the two front ends
    placeholder_list,   \* placeholders: what get_placeholders lists for the template
    columns,            \* the column names of the data file, in file order
    column_mapping,     \* st.session_state.column_mapping (Streamlit)
    auto_mapping,       \* auto_mapping handed to map_columns.html (FastAPI)
    shown,              \* the front ends whose mapping step has been shown
    \* DataHandler.get_data_as_dicts
    df,                 \* self.df.to_dict("records"): the rows, each a dictionary
    mapping,            \* the column_mapping argument, <<>> for None or {}
    data_rows,          \* what get_data_as_dicts returned
    data_called,        \* TRUE once get_data_as_dicts has returned
    \* batch generation: the Streamlit loop and generate_documents
    front,              \* "streamlit" | "fastapi" | "none"
    gen_rows,           \* data_rows: the rows to generate from
    filename_config,    \* filename_mode, filename_column and filename_pattern
    documents,          \* the (filename, doc_bytes) pairs appended so far
    row_idx,            \* the rows gone through, 0-based position of the next
    gen_pc,             \* "idle" | "loop" | "returned" | "raised" | "reported"
    gen_error,          \* what reached the caller when a row failed
    generated_docs,     \* st.session_state.generated_docs
    \* EmailHandler.render_template
    email_template,     \* the template argument
    email_row,          \* the data argument: the row, a dictionary
    rendered,           \* what render_template returned
    render_called,      \* TRUE once render_template has returned
    \* the email queue of a FastAPI session
    queue_file,         \* email_queue.json: the items, each with its status
    requests,           \* the /send-single and /skip-single requests received
    deliveries,         \* index of every message a send_personalized_email got accepted
    workers,            \* the processes that serve the application
    \* the Streamlit session (st.session_state)
    template_processor, \* <<>> for None, or <<the template file loaded>>
    data_handler,       \* <<>> for None, or <<the data file loaded>>
    session_mapping,    \* column_mapping, a dictionary
    step,               \* the furthest step reached, 1..4
    current_tab,        \* the tab shown, 0..4
    session_docs,       \* generated_docs: <<>> for None, or the documents, each
                        \* with the data file and the row it was generated from
    last_generation,    \* <<>>, or <<what the last generation ran with>>
    \* the send section of the Streamlit session
    data_df,            \* handler.df: per row, the text each column holds
    email_column,       \* st.session_state.email_column
    missing_emails,     \* st.session_state.missing_emails, a dictionary
    skip_rows,          \* st.session_state.skip_rows
    send_list,          \* the email_data_list built by "Confirm & Send All Emails"
    confirmed           \* TRUE once the button has been pressed

batchVars == <<email_data_list, progress_callback, delay_seconds, results, idx, pc,
               exc, server, connects, starttlsCalls, logins, attempts, transmitted,
               failures, sleeps, callbacks, exits, cause>>

docVars == <<given, processor, generated>>

mapVars == <<placeholder_list, columns, column_mapping, auto_mapping, shown>>

dataVars == <<df, mapping, data_rows, data_called>>

genVars == <<front, gen_rows, filename_config, documents, row_idx, gen_pc, gen_error,
             generated_docs>>

renderVars == <<email_template, email_row, rendered, render_called>>

queueVars == <<queue_file, requests, deliveries, workers>>

sessionVars == <<template_processor, data_handler, session_mapping, step, current_tab, session_docs, last_generation>>

sendVars == <<data_df, email_column, missing_emails, skip_rows, send_list, confirmed>>

vars == <<batchVars, docVars, mapVars, dataVars, genVars, renderVars, queueVars, sessionVars, sendVars>>

\* What each part of the model leaves alone.
restOfBatch == <<docVars, mapVars, dataVars, genVars, renderVars, queueVars, sessionVars, sendVars>>
restOfDoc == <<batchVars, mapVars, dataVars, genVars, renderVars, queueVars, sessionVars, sendVars>>
restOfMap == <<batchVars, docVars, dataVars, genVars, renderVars, queueVars, sessionVars, sendVars>>
restOfData == <<batchVars, docVars, mapVars, genVars, renderVars, queueVars, sessionVars, sendVars>>
restOfGen == <<batchVars, docVars, mapVars, dataVars, renderVars, queueVars, sessionVars, sendVars>>
restOfRender == <<batchVars, docVars, mapVars, dataVars, genVars, queueVars, sessionVars, sendVars>>
restOfQueue == <<batchVars, docVars, mapVars, dataVars, genVars, renderVars, sessionVars, sendVars>>
restOfSession == <<batchVars, docVars, mapVars, dataVars, genVars, renderVars, queueVars, sendVars>>
restOfSend == <<batchVars, docVars, mapVars, dataVars, genVars, renderVars, queueVars, sessionVars>>


\* len(email_data_list)
Total == Len(email_data_list)

\* email_data_list[idx]
JobAt(i) == email_data_list[i + 1]

\* ------------------------------------------------------------ pure pieces

\* results = {...}: the Batch Result before the connection is opened.
InitialResults(n) ==
    [total |-> n, sent |-> 0, failed |-> 0, skipped |-> 0, failed_details |-> <<>>]

\* email_data.get("row_index", idx)
RowIndexOf(job, i) == IF job.row_index = NoRowIndex THEN i ELSE job.row_index[1]

\* str(e): the text of an exception, as a sequence of its pieces.
ErrorText(err) == <<err>>

\* results["sent"] += 1
RecordSent(res) == [res EXCEPT !.sent = @ + 1]

RecordFailure_Prepend(res, job, i, err) ==
    [res EXCEPT !.failed = @ + 1,
                !.failed_details = <<[row_index |-> RowIndexOf(job, i),
                                      email |-> job.to_email,
                                      error |-> ErrorText(err)]>> \o @]

RecordFailure_ListPosition(res, job, i, err) ==
    [res EXCEPT !.failed = @ + 1,
                !.failed_details = Append(@, [row_index |-> i,
                                              email |-> job.to_email,
                                              error |-> ErrorText(err)])]

\* except Exception as e: of the job's try block.
RecordFailure(res, job, i, err) ==
    [res EXCEPT !.failed = @ + 1,
                !.failed_details = Append(@, [row_index |-> RowIndexOf(job, i),
                                              email |-> job.to_email,
                                              error |-> ErrorText(err)])]

\* The synthetic record of the outer handler.
GlobalRecord(err) ==
    [row_index |-> -1, email |-> "Global Batch Error",
     error |-> <<"Connection failed: ">> \o ErrorText(err)]

RecordGlobalFailure_PerJob(res, n, err) ==
    LET remaining == n - (res.sent + res.failed)
        Fill[k \in 0..remaining] ==
            IF k = 0 THEN res.failed_details ELSE Append(Fill[k - 1], GlobalRecord(err))
    IN  [res EXCEPT !.failed = @ + remaining, !.failed_details = Fill[remaining]]

RecordGlobalFailure_NoRemaining(res, n, err) ==
    [res EXCEPT !.failed_details = Append(@, GlobalRecord(err))]

\* The outer except Exception as e: the jobs not yet counted become failed
\* and one synthetic record is appended.
RecordGlobalFailure(res, n, err) ==
    LET remaining == n - (res.sent + res.failed)
    IN  [res EXCEPT !.failed = @ + remaining,
                    !.failed_details = Append(@, GlobalRecord(err))]

ShouldSleep_Always(i, n) == TRUE

\* if idx < len(email_data_list) - 1
ShouldSleep(i, n) == i < n - 1

CallbackArgs_Completed(i, n) == [current |-> i, total |-> n]

\* progress_callback(idx + 1, len(email_data_list), ...)
CallbackArgs(i, n) == [current |-> i + 1, total |-> n]

\* for idx, email_data in enumerate(...): the line reached when iteration i
\* is about to start, or the end of the with block when the list is used up.
LoopHead(i) ==
    IF i < Total
    THEN IF progress_callback THEN "callback" ELSE "job"
    ELSE "exit"

\* ------------------------------------------------------------------- Init

InitBatch ==
    /\ email_data_list \in JobLists
    /\ progress_callback \in BOOLEAN
    /\ delay_seconds \in Delays
    /\ results = InitialResults(Len(email_data_list))
    /\ idx = 0
    /\ pc = "connect"
    /\ exc = NoExc
    /\ server = "none"
    /\ connects = 0
    /\ starttlsCalls = 0
    /\ logins = 0
    /\ attempts = <<>>
    /\ transmitted = <<>>
    /\ failures = <<>>
    /\ sleeps = <<>>
    /\ callbacks = <<>>
    /\ exits = 0
    /\ cause = NoExc

\* ---------------------------------------------------------------- actions

\* A statement inside the with block raises: SMTP.__exit__ runs with the
\* exception pending.
RaiseInWith(e) ==
    /\ exc' = e
    /\ cause' = e
    /\ pc' = "exit"

\* with smtplib.SMTP(self.smtp_server, self.smtp_port, timeout=30) as server:
\* the constructor connects; when it raises the with block is never entered.
Connect ==
    /\ pc = "connect"
    /\ connects' = connects + 1
    /\ \/ /\ server' = "open"
          /\ pc' = "starttls"
          /\ UNCHANGED <<exc, cause>>
       \/ /\ server' = server
          /\ pc' = "except"
          /\ exc' = "connect"
          /\ cause' = "connect"
    /\ UNCHANGED restOfBatch
    /\ UNCHANGED <<email_data_list, progress_callback, delay_seconds, results, idx,
                   starttlsCalls, logins, attempts, transmitted, failures, sleeps,
                   callbacks, exits>>

\* server.starttls()
Starttls ==
    /\ pc = "starttls"
    /\ starttlsCalls' = starttlsCalls + 1
    /\ \/ /\ pc' = "login"
          /\ UNCHANGED <<exc, cause>>
       \/ RaiseInWith("starttls")
    /\ UNCHANGED restOfBatch
    /\ UNCHANGED <<email_data_list, progress_callback, delay_seconds, results, idx,
                   server, connects, logins, attempts, transmitted, failures, sleeps,
                   callbacks, exits>>

\* server.login(self.sender_email, self.sender_password)
Login ==
    /\ pc = "login"
    /\ logins' = logins + 1
    /\ \/ /\ pc' = LoopHead(0)
          /\ UNCHANGED <<exc, cause>>
       \/ RaiseInWith("login")
    /\ UNCHANGED restOfBatch
    /\ UNCHANGED <<email_data_list, progress_callback, delay_seconds, results, idx,
                   server, connects, starttlsCalls, attempts, transmitted, failures,
                   sleeps, callbacks, exits>>

\* if progress_callback: progress_callback(idx + 1, len(email_data_list), ...)
\* The call stands before the job's try block: what it raises leaves the loop.
Callback ==
    /\ pc = "callback"
    /\ callbacks' = Append(callbacks, [args |-> CallbackArgs(idx, Total),
                                       completed |-> results.sent + results.failed])
    /\ \/ /\ pc' = "job"
          /\ UNCHANGED <<exc, cause>>
       \/ RaiseInWith("callback")
    /\ UNCHANGED restOfBatch
    /\ UNCHANGED <<email_data_list, progress_callback, delay_seconds, results, idx,
                   server, connects, starttlsCalls, logins, attempts, transmitted,
                   failures, sleeps, exits>>

\* The line after the job's try/except.
AfterJob == IF ShouldSleep(idx, Total) THEN "sleep" ELSE LoopHead(idx + 1)

\* idx as the line after the job's try/except finds it.
AfterJobIdx == IF ShouldSleep(idx, Total) THEN idx ELSE idx + 1

\* Whether the try block of a job can raise err with the connection as it is:
\* a refusal needs a server to answer; a connection that is gone stays gone.
CanRaise(err) == server = "closed" => err # "recipient refused"

\* The connection after the try block raised err.
ServerAfter(err) == IF err = "server disconnected" THEN "closed" ELSE server

\* try: msg = self.create_message(...); server.send_message(msg);
\*      results["sent"] += 1
JobSent ==
    /\ pc = "job"
    /\ server = "open"
    /\ attempts' = Append(attempts, idx)
    /\ transmitted' = Append(transmitted, idx)
    /\ results' = RecordSent(results)
    /\ pc' = AfterJob
    /\ idx' = AfterJobIdx
    /\ UNCHANGED restOfBatch
    /\ UNCHANGED <<email_data_list, progress_callback, delay_seconds, exc, server,
                   connects, starttlsCalls, logins, failures, sleeps, callbacks, exits,
                   cause>>

JobRaises_Propagates ==
    /\ pc = "job"
    /\ \E err \in JobErrors :
        /\ CanRaise(err)
        /\ server' = ServerAfter(err)
        /\ RaiseInWith(err)
    /\ attempts' = Append(attempts, idx)
    /\ UNCHANGED restOfBatch
    /\ UNCHANGED <<email_data_list, progress_callback, delay_seconds, results, idx,
                   connects, starttlsCalls, logins, transmitted, failures, sleeps,
                   callbacks, exits>>

JobRaises_Reconnects ==
    /\ pc = "job"
    /\ \E err \in JobErrors :
        /\ CanRaise(err)
        /\ server' = "open"
        /\ results' = RecordFailure(results, JobAt(idx), idx, err)
        /\ failures' = Append(failures, [idx |-> idx, err |-> err])
    /\ connects' = connects + 1
    /\ starttlsCalls' = starttlsCalls + 1
    /\ logins' = logins + 1
    /\ attempts' = Append(attempts, idx)
    /\ pc' = AfterJob
    /\ idx' = AfterJobIdx
    /\ UNCHANGED restOfBatch
    /\ UNCHANGED <<email_data_list, progress_callback, delay_seconds, exc,
                   transmitted, sleeps, callbacks, exits, cause>>

\* The job's try block raises, in create_message or in send_message; the
\* handler records the failure and the loop goes on. Nothing reconnects.
JobRaises ==
    /\ pc = "job"
    /\ \E err \in JobErrors :
        /\ CanRaise(err)
        /\ server' = ServerAfter(err)
        /\ results' = RecordFailure(results, JobAt(idx), idx, err)
        /\ failures' = Append(failures, [idx |-> idx, err |-> err])
    /\ attempts' = Append(attempts, idx)
    /\ pc' = AfterJob
    /\ idx' = AfterJobIdx
    /\ UNCHANGED restOfBatch
    /\ UNCHANGED <<email_data_list, progress_callback, delay_seconds, exc, connects,
                   starttlsCalls, logins, transmitted, sleeps, callbacks, exits, cause>>

\* time.sleep(delay_seconds), then the next iteration. A negative delay
\* raises ValueError, outside the job's try block.
Sleep ==
    /\ pc = "sleep"
    /\ \/ /\ delay_seconds >= 0
          /\ sleeps' = Append(sleeps, idx)
          /\ idx' = idx + 1
          /\ pc' = LoopHead(idx + 1)
          /\ UNCHANGED <<exc, cause>>
       \/ /\ delay_seconds < 0
          /\ RaiseInWith("sleep")
          /\ UNCHANGED <<sleeps, idx>>
    /\ UNCHANGED restOfBatch
    /\ UNCHANGED <<email_data_list, progress_callback, delay_seconds, results, server,
                   connects, starttlsCalls, logins, attempts, transmitted, failures,
                   callbacks, exits>>

Exit_LeavesOpen ==
    /\ pc = "exit"
    /\ exits' = exits + 1
    /\ server' = IF exc = NoExc THEN "closed" ELSE server
    /\ \/ /\ pc' = IF exc = NoExc THEN "done" ELSE "except"
          /\ UNCHANGED <<exc, cause>>
       \/ /\ server = "open"
          /\ pc' = "except"
          /\ exc' = "quit"
          /\ cause' = IF cause = NoExc THEN "quit" ELSE cause
    /\ UNCHANGED restOfBatch
    /\ UNCHANGED <<email_data_list, progress_callback, delay_seconds, results, idx,
                   connects, starttlsCalls, logins, attempts, transmitted, failures,
                   sleeps, callbacks>>

\* The end of the with block, normal or by exception: SMTP.__exit__ sends
\* QUIT and closes the socket in a finally. A bad reply to QUIT raises (and
\* replaces a pending exception); a connection already gone is passed over.
Exit ==
    /\ pc = "exit"
    /\ exits' = exits + 1
    /\ server' = "closed"
    /\ \/ /\ pc' = IF exc = NoExc THEN "done" ELSE "except"
          /\ UNCHANGED <<exc, cause>>
       \/ /\ server = "open"
          /\ pc' = "except"
          /\ exc' = "quit"
          /\ cause' = IF cause = NoExc THEN "quit" ELSE cause
    /\ UNCHANGED restOfBatch
    /\ UNCHANGED <<email_data_list, progress_callback, delay_seconds, results, idx,
                   connects, starttlsCalls, logins, attempts, transmitted, failures,
                   sleeps, callbacks>>

\* except Exception as e: the outer handler, then return results.
Except ==
    /\ pc = "except"
    /\ results' = RecordGlobalFailure(results, Total, exc)
    /\ pc' = "done"
    /\ UNCHANGED restOfBatch
    /\ UNCHANGED <<email_data_list, progress_callback, delay_seconds, idx, exc, server,
                   connects, starttlsCalls, logins, attempts, transmitted, failures,
                   sleeps, callbacks, exits, cause>>

NextBatch ==
    \/ Connect
    \/ Starttls
    \/ Login
    \/ Callback
    \/ JobSent
    \/ JobRaises
    \/ Sleep
    \/ Exit
    \/ Except


\* ------------------------------------------------- the document processor
\* src/utils/document_processor.py. A text is a sequence of characters; a
\* paragraph is the sequence of the texts of its runs; a document is the
\* sequence of its paragraphs; the bytes of a document are its serial form.

\* Most generate_document calls on one processor.
MaxCalls == 2

\* The default reserved name of generate_document.
Signature == <<"S", "i", "g", "n", "a", "t", "u", "r", "e">>

\* str.lower() on one character, over the letters the model's texts use.
Lower(c) ==
    CASE c = "A" -> "a"
      [] c = "B" -> "b"
      [] c = "S" -> "s"
      [] c = "R" -> "r"
      [] OTHER -> c

\* str.lower()
LowerText(t) == [k \in 1..Len(t) |-> Lower(t[k])]

\* Whitespace as \s and str.strip() see it.
IsSpace(c) == c = " "

RECURSIVE Concat(_)
\* "".join(texts)
Concat(texts) == IF texts = <<>> THEN <<>> ELSE Head(texts) \o Concat(Tail(texts))

RECURSIVE Strip(_)
\* str.strip()
Strip(t) ==
    IF t = <<>> THEN t
    ELSE IF IsSpace(t[1]) THEN Strip(Tail(t))
    ELSE IF IsSpace(t[Len(t)]) THEN Strip(SubSeq(t, 1, Len(t) - 1))
    ELSE t

\* The least element of a non-empty set of numbers.
Least(S) == CHOOSE m \in S : \A n \in S : m <= n

RECURSIVE FindAllFrom(_, _)
\* PLACEHOLDER_PATTERN.findall(text) from position i on: the captures of
\* \{([^}]+)\}, leftmost first, not overlapping.
FindAllFrom(text, i) ==
    IF i > Len(text) THEN <<>>
    ELSE IF text[i] # "{" THEN FindAllFrom(text, i + 1)
    ELSE LET closes == {j \in (i + 1)..Len(text) : text[j] = "}"}
         IN  IF closes = {} THEN <<>>
             ELSE IF Least(closes) = i + 1 THEN FindAllFrom(text, i + 1)
             ELSE <<SubSeq(text, i + 1, Least(closes) - 1)>>
                      \o FindAllFrom(text, Least(closes) + 1)

\* PLACEHOLDER_PATTERN = re.compile(r"\{([^}]+)\}"), findall
FindAll(text) == FindAllFrom(text, 1)

\* _extract_placeholders_from_text: set(m.strip() for m in matches)
ExtractPlaceholdersFromText(text) ==
    {Strip(FindAll(text)[k]) : k \in 1..Len(FindAll(text))}

\* paragraph.text: the texts of the runs, joined.
ParagraphText(paragraph) == Concat(paragraph)

RECURSIVE SaveRuns(_)
\* The serial form of the runs of one paragraph.
SaveRuns(runs) ==
    IF runs = <<>> THEN <<>> ELSE <<"<w:r>">> \o Head(runs) \o SaveRuns(Tail(runs))

RECURSIVE SaveParagraphs(_)
\* The serial form of the paragraphs of one container.
SaveParagraphs(paragraphs) ==
    IF paragraphs = <<>> THEN <<>>
    ELSE <<"<w:p>">> \o SaveRuns(Head(paragraphs)) \o SaveParagraphs(Tail(paragraphs))

RECURSIVE SaveContainer(_)
RECURSIVE SaveTables(_)
RECURSIVE SaveCells(_)
\* The serial form of a body, a header, a footer or a table cell: its
\* paragraphs, then its tables.
SaveContainer(container) ==
    SaveParagraphs(container.paragraphs) \o SaveTables(container.tables)

\* The serial form of the tables of one container.
SaveTables(tables) ==
    IF tables = <<>> THEN <<>>
    ELSE <<"<w:tbl>">> \o SaveCells(Head(tables)) \o <<"</w:tbl>">>
             \o SaveTables(Tail(tables))

\* The serial form of the cells of one table, row after row.
SaveCells(cells) ==
    IF cells = <<>> THEN <<>>
    ELSE <<"<w:tc>">> \o SaveContainer(Head(cells)) \o <<"</w:tc>">>
             \o SaveCells(Tail(cells))

\* doc.save(output); output.getvalue(): the bytes of a document.
Save(doc) ==
    <<"<w:body>">> \o SaveContainer(doc.body)
        \o <<"<w:hdr>">> \o SaveContainer(doc.header)
        \o <<"<w:ftr>">> \o SaveContainer(doc.footer)

\* The marks of the serial form.
Marks == {"<w:body>", "<w:hdr>", "<w:ftr>", "<w:p>", "<w:r>", "<w:tbl>", "</w:tbl>",
          "<w:tc>", "</w:tc>"}

\* bytes[i] is the mark m.
At(bytes, i, m) == i <= Len(bytes) /\ bytes[i] = m

RECURSIVE ParseText(_, _)
\* The characters of one run, from position i up to the next mark.
ParseText(bytes, i) ==
    IF i > Len(bytes) \/ bytes[i] \in Marks THEN [val |-> <<>>, next |-> i]
    ELSE LET rest == ParseText(bytes, i + 1)
         IN  [val |-> <<bytes[i]>> \o rest.val, next |-> rest.next]

RECURSIVE ParseRuns(_, _)
\* The runs of one paragraph.
ParseRuns(bytes, i) ==
    IF ~At(bytes, i, "<w:r>") THEN [val |-> <<>>, next |-> i]
    ELSE LET run == ParseText(bytes, i + 1)
             rest == ParseRuns(bytes, run.next)
         IN  [val |-> <<run.val>> \o rest.val, next |-> rest.next]

RECURSIVE ParseParagraphs(_, _)
\* The paragraphs of one container.
ParseParagraphs(bytes, i) ==
    IF ~At(bytes, i, "<w:p>") THEN [val |-> <<>>, next |-> i]
    ELSE LET runs == ParseRuns(bytes, i + 1)
             rest == ParseParagraphs(bytes, runs.next)
         IN  [val |-> <<runs.val>> \o rest.val, next |-> rest.next]

RECURSIVE ParseContainer(_, _)
RECURSIVE ParseTables(_, _)
RECURSIVE ParseCells(_, _)
\* A body, a header, a footer or a table cell.
ParseContainer(bytes, i) ==
    LET paragraphs == ParseParagraphs(bytes, i)
        tables == ParseTables(bytes, paragraphs.next)
    IN  [val |-> [paragraphs |-> paragraphs.val, tables |-> tables.val],
         next |-> tables.next]

\* The tables of one container.
ParseTables(bytes, i) ==
    IF ~At(bytes, i, "<w:tbl>") THEN [val |-> <<>>, next |-> i]
    ELSE LET cells == ParseCells(bytes, i + 1)
             rest == ParseTables(bytes, cells.next + 1)
         IN  [val |-> <<cells.val>> \o rest.val, next |-> rest.next]

\* The cells of one table.
ParseCells(bytes, i) ==
    IF ~At(bytes, i, "<w:tc>") THEN [val |-> <<>>, next |-> i]
    ELSE LET cell == ParseContainer(bytes, i + 1)
             rest == ParseCells(bytes, cell.next + 1)
         IN  [val |-> <<cell.val>> \o rest.val, next |-> rest.next]

\* Document(BytesIO(bytes)): the document a serial form stands for.
Document(bytes) ==
    LET body == ParseContainer(bytes, 2)
        header == ParseContainer(bytes, body.next + 1)
        footer == ParseContainer(bytes, header.next + 1)
    IN  [body |-> body.val, header |-> header.val, footer |-> footer.val]

\* The placeholders of a sequence of paragraphs.
ExtractFromParagraphs(paragraphs) ==
    UNION {ExtractPlaceholdersFromText(ParagraphText(paragraphs[k])) :
              k \in 1..Len(paragraphs)}

\* for table in tables: for row in table.rows: for cell in row.cells:
\* for paragraph in cell.paragraphs. The tables of a cell are not visited.
ExtractFromTables(tables) ==
    UNION {UNION {ExtractFromParagraphs(tables[t][c].paragraphs) :
                     c \in 1..Len(tables[t])} : t \in 1..Len(tables)}

\* _extract_placeholders: the body paragraphs, the paragraphs of the cells of
\* the body tables, and the same of the header and of the footer.
ExtractPlaceholders(doc) ==
    ExtractFromParagraphs(doc.body.paragraphs) \cup ExtractFromTables(doc.body.tables)
        \cup ExtractFromParagraphs(doc.header.paragraphs)
        \cup ExtractFromTables(doc.header.tables)
        \cup ExtractFromParagraphs(doc.footer.paragraphs)
        \cup ExtractFromTables(doc.footer.tables)

\* __init__: template_bytes, template_doc and placeholders of a new processor.
NewProcessor(template_bytes) ==
    [template_bytes |-> template_bytes,
     template_doc |-> Document(template_bytes),
     placeholders |-> ExtractPlaceholders(Document(template_bytes))]

RECURSIVE SkipSpaces(_, _)
\* \s*: the first position from i on that holds no whitespace.
SkipSpaces(text, i) ==
    IF i <= Len(text) /\ IsSpace(text[i]) THEN SkipSpaces(text, i + 1) ELSE i

\* Where a match of \{\s*placeholder\s*\} (re.IGNORECASE) that starts at i
\* ends, or 0 when there is none.
MatchEnd(placeholder, text, i) ==
    IF text[i] # "{" THEN 0
    ELSE LET a == SkipSpaces(text, i + 1)
             b == SkipSpaces(text, a + Len(placeholder))
         IN  IF /\ a + Len(placeholder) - 1 <= Len(text)
                /\ \A k \in 1..Len(placeholder) :
                      Lower(text[a + k - 1]) = Lower(placeholder[k])
                /\ b <= Len(text)
                /\ text[b] = "}"
             THEN b
             ELSE 0

RECURSIVE SubFrom(_, _, _, _)
\* re.sub(pattern, value, text, flags=re.IGNORECASE) from position i on.
SubFrom(placeholder, value, text, i) ==
    IF i > Len(text) THEN <<>>
    ELSE IF MatchEnd(placeholder, text, i) = 0
         THEN <<text[i]>> \o SubFrom(placeholder, value, text, i + 1)
         ELSE value \o SubFrom(placeholder, value, text, MatchEnd(placeholder, text, i) + 1)

RECURSIVE ApplyReplacements(_, _, _)
\* for placeholder, value in replacements.items(): new_text = re.sub(...)
\* with the items taken in the order the dictionary holds them.
ApplyReplacements(text, replacements, order) ==
    IF order = <<>> THEN text
    ELSE ApplyReplacements(SubFrom(Head(order), replacements[Head(order)], text, 1),
                           replacements, Tail(order))

ReplaceTextInParagraph_PerRun(paragraph, replacements, order) ==
    [k \in 1..Len(paragraph) |-> ApplyReplacements(paragraph[k], replacements, order)]

\* _replace_text_in_paragraph: a paragraph without any token, or whose text
\* the replacements leave as it is, keeps its runs; otherwise the first run
\* takes the new text and every other run is emptied (a paragraph without
\* runs gets one).
ReplaceTextInParagraph(paragraph, replacements, order) ==
    LET full_text == ParagraphText(paragraph)
        new_text == ApplyReplacements(full_text, replacements, order)
    IN  IF FindAll(full_text) = <<>> \/ new_text = full_text THEN paragraph
        ELSE IF paragraph = <<>> THEN <<new_text>>
        ELSE [k \in 1..Len(paragraph) |-> IF k = 1 THEN new_text ELSE <<>>]

\* The value of the first key of data that is equal to the placeholder
\* ignoring case, or the empty string (the for ... else of lines 185-190).
FirstCaseInsensitive(data, placeholder) ==
    LET hits == {k \in 1..Len(data) : LowerText(data[k].key) = LowerText(placeholder)}
    IN  IF hits = {} THEN <<>> ELSE data[Least(hits)].value

\* data[placeholder], for a key that data holds.
Lookup(data, placeholder) ==
    data[CHOOSE k \in 1..Len(data) : data[k].key = placeholder].value

\* placeholder in data
HasKey(data, placeholder) == \E k \in 1..Len(data) : data[k].key = placeholder

BuildReplacements_CaseInsensitiveFirst(placeholders, data, preserved) ==
    [placeholder \in {q \in placeholders : q \notin preserved} |->
        FirstCaseInsensitive(data, placeholder)]

\* The replacement dictionary of generate_document (lines 174-190).
BuildReplacements(placeholders, data, preserved) ==
    [placeholder \in {q \in placeholders : q \notin preserved} |->
        IF HasKey(data, placeholder) THEN Lookup(data, placeholder)
        ELSE FirstCaseInsensitive(data, placeholder)]

\* preserved_placeholders after the None check of lines 167-169.
PreservedOrDefault(preserved_placeholders) ==
    IF preserved_placeholders = <<>> THEN {Signature} ELSE preserved_placeholders[1]

\* The orders in which a dictionary with these keys may hold them: the
\* keys come from iterating a set.
Orders(keys) ==
    {o \in [1..Cardinality(keys) -> keys] : \A i, j \in 1..Cardinality(keys) :
                                              o[i] = o[j] => i = j}

RECURSIVE ReplaceInContainer(_, _, _)
\* The loops of generate_document over the paragraphs and the tables of the
\* body, of a header or of a footer, and _replace_in_table, which goes
\* through the paragraphs of every cell and into the tables nested in it.
ReplaceInContainer(container, replacements, order) ==
    [paragraphs |->
         [k \in 1..Len(container.paragraphs) |->
             ReplaceTextInParagraph(container.paragraphs[k], replacements, order)],
     tables |->
         [t \in 1..Len(container.tables) |->
             [c \in 1..Len(container.tables[t]) |->
                 ReplaceInContainer(container.tables[t][c], replacements, order)]]]

\* The replacement loops of generate_document over body, header and footer.
ReplaceInDocument(doc, replacements, order) ==
    [body |-> ReplaceInContainer(doc.body, replacements, order),
     header |-> ReplaceInContainer(doc.header, replacements, order),
     footer |-> ReplaceInContainer(doc.footer, replacements, order)]

generate_document_InPlace(self, data, preserved_placeholders, order) ==
    LET doc == self.template_doc
        replacements == BuildReplacements(self.placeholders, data,
                                          PreservedOrDefault(preserved_placeholders))
        replaced == ReplaceInDocument(doc, replacements, order)
    IN  [self |-> [self EXCEPT !.template_doc = replaced],
         replacements |-> replacements, output |-> Save(replaced)]

\* generate_document: the processor as the call leaves it, the replacement
\* dictionary it built and the bytes it returns. The document worked on is
\* parsed afresh from template_bytes.
generate_document(self, data, preserved_placeholders, order) ==
    LET doc == Document(self.template_bytes)
        replacements == BuildReplacements(self.placeholders, data,
                                          PreservedOrDefault(preserved_placeholders))
        replaced == ReplaceInDocument(doc, replacements, order)
    IN  [self |-> self, replacements |-> replacements, output |-> Save(replaced)]

\* SignHere(anchor_string="{{Signature:Recipient1}}", ...): the text the
\* signature tab is anchored to.
AnchorString ==
    <<"{", "{">> \o Signature
        \o <<":", "R", "e", "c", "i", "p", "i", "e", "n", "t", "1", "}", "}">>

\* A body, header, footer or cell with these paragraphs and tables.
Container(paragraphs, tables) == [paragraphs |-> paragraphs, tables |-> tables]

\* A document of body paragraphs only.
BodyOnly(paragraphs) ==
    [body |-> Container(paragraphs, <<>>), header |-> Container(<<>>, <<>>),
     footer |-> Container(<<>>, <<>>)]

\* The templates of the model: a token split over two runs beside a
\* paragraph without runs and one without tokens; two tokens that differ in
\* case only; the reserved token beside a token with inner spaces; a table
\* whose cell holds a token and a nested table with another token, under a
\* header with a token split over two runs; the reserved token in the body
\* and in a footer table beside a token that differs from it in case only;
\* the anchor of the signature tab.
TemplateDocs ==
    { BodyOnly(<< <<<<"{", "a">>, <<"}">>>>, <<>>, <<<<"x">>, <<"x">>>> >>),
      BodyOnly(<< <<<<"{", "A", "}", " ">>, <<"{", "a", "}">>>> >>),
      BodyOnly(<< <<<<"{">> \o Signature \o <<"}">>>>,
                  <<<<"x", "{", " ", "b", " ", "}">>>> >>),
      [body |-> Container(<<>>,
                  << << Container(<< <<<<"{", "b", "}">>>> >>,
                          << << Container(<< <<<<"{", "a", "}">>>> >>, <<>>) >> >>) >> >>),
       header |-> Container(<< <<<<"{", "b">>, <<"}", "x">>>> >>, <<>>),
       footer |-> Container(<<>>, <<>>)],
      [body |-> Container(<< <<<<"{">> \o Signature \o <<"}", "{">>
                                \o LowerText(Signature) \o <<"}">>>> >>, <<>>),
       header |-> Container(<<>>, <<>>),
       footer |-> Container(<<>>,
                    << << Container(<< <<<<"{">> \o Signature \o <<"}">>>> >>, <<>>) >> >>)],
      BodyOnly(<< <<AnchorString>> >>) }

\* The rows of the model, each a dictionary as the sequence of its items.
Rows ==
    { <<>>,
      <<[key |-> <<"a">>, value |-> <<"1">>]>>,
      <<[key |-> <<"A">>, value |-> <<"2">>], [key |-> <<"a">>, value |-> <<"1">>]>>,
      <<[key |-> Signature, value |-> <<"Z">>],
        [key |-> <<"B">>, value |-> <<"{", "a", "}">>]>> }

\* The reserved lists of the model: None (<<>>), or <<names>>.
PreservedArgs == {<<>>, <<{}>>, <<{<<"a">>}>>}

\* DocumentProcessor(template_bytes) on the bytes of a template.
InitDoc ==
    /\ given \in {Save(d) : d \in TemplateDocs}
    /\ processor = NewProcessor(given)
    /\ generated = <<>>

\* processor.generate_document(data, preserved_placeholders)
GenerateDocument ==
    /\ Len(generated) < MaxCalls
    /\ \E data \in Rows, preserved \in PreservedArgs :
        \E order \in Orders({q \in processor.placeholders :
                                q \notin PreservedOrDefault(preserved)}) :
            LET call == generate_document(processor, data, preserved, order)
            IN  /\ processor' = call.self
                /\ generated' = Append(generated, [data |-> data, preserved |-> preserved,
                                                   order |-> order,
                                                   replacements |-> call.replacements,
                                                   output |-> call.output])
    /\ UNCHANGED given
    /\ UNCHANGED restOfDoc

\* ------------------------------------------------------- the mapping step

\* The longest column list of the model.
MaxColumns == 3

\* The names the model's placeholders and columns are taken from.
ColumnNames == {<<"A">>, <<"a">>, <<"x", "a">>, <<"b">>}

\* The column lists of the model: distinct names, in any order.
ColumnLists ==
    UNION {{cs \in [1..n -> ColumnNames] : \A i, j \in 1..n : cs[i] = cs[j] => i = j} :
              n \in 0..MaxColumns}

\* get_placeholders(): sorted(list(self.placeholders)), for the placeholder
\* sets of the model.
PlaceholderLists == {<<<<"A">>>>, <<<<"a">>>>, <<<<"A">>, <<"a">>>>, <<<<"a">>, <<"b">>>>}

\* a in b, for two strings
IsIn(a, b) ==
    \E i \in 1..(Len(b) + 1) :
        i + Len(a) - 1 <= Len(b) /\ SubSeq(b, i, i + Len(a) - 1) = a

\* placeholder.lower() in col.lower() or col.lower() in placeholder.lower()
PartialMatch(placeholder, col) ==
    \/ IsIn(LowerText(placeholder), LowerText(col))
    \/ IsIn(LowerText(col), LowerText(placeholder))

\* The body of "for placeholder in placeholders" in render_mapping_section:
\* the items it adds to auto_mapping, none or one.
StreamlitItems(placeholder, cols) ==
    IF \E k \in 1..Len(cols) : cols[k] = placeholder
    THEN <<[key |-> placeholder, value |-> placeholder]>>
    ELSE LET hits == {k \in 1..Len(cols) :
                         \/ LowerText(cols[k]) = LowerText(placeholder)
                         \/ PartialMatch(placeholder, cols[k])}
         IN  IF hits = {} THEN <<>>
             ELSE <<[key |-> placeholder, value |-> cols[Least(hits)]]>>

RECURSIVE StreamlitAutoMapping(_, _)
\* The auto-mapping loop of render_mapping_section (src/app.py).
StreamlitAutoMapping(names, cols) ==
    IF names = <<>> THEN <<>>
    ELSE StreamlitItems(Head(names), cols) \o StreamlitAutoMapping(Tail(names), cols)

RECURSIVE FastApiScan(_, _, _, _)
\* "for c in columns" of map_columns_page from the k-th column on, found
\* being what auto_mapping holds for p so far (<<>> nothing, <<c>> column c).
FastApiScan(p, cols, k, found) ==
    IF k > Len(cols) THEN found
    ELSE IF LowerText(p) = LowerText(cols[k]) THEN <<cols[k]>>
    ELSE IF PartialMatch(p, cols[k]) THEN FastApiScan(p, cols, k + 1, <<cols[k]>>)
    ELSE FastApiScan(p, cols, k + 1, found)

RECURSIVE FastApiAutoMapping(_, _)
\* The auto-mapping loop of map_columns_page (src/main.py).
FastApiAutoMapping(names, cols) ==
    IF names = <<>> THEN <<>>
    ELSE LET found == FastApiScan(Head(names), cols, 1, <<>>)
         IN  (IF found = <<>> THEN <<>>
              ELSE <<[key |-> Head(names), value |-> found[1]]>>)
                 \o FastApiAutoMapping(Tail(names), cols)

\* A template and a data file have been loaded; no mapping exists yet.
InitMap ==
    /\ placeholder_list \in PlaceholderLists
    /\ columns \in ColumnLists
    /\ column_mapping = <<>>
    /\ auto_mapping = <<>>
    /\ shown = {}

\* render_mapping_section: the auto-mapping is computed when the session
\* holds no mapping.
RenderMappingSection ==
    /\ "streamlit" \notin shown
    /\ column_mapping' = IF column_mapping = <<>>
                         THEN StreamlitAutoMapping(placeholder_list, columns)
                         ELSE column_mapping
    /\ shown' = shown \cup {"streamlit"}
    /\ UNCHANGED <<placeholder_list, columns, auto_mapping>>
    /\ UNCHANGED restOfMap

\* map_columns_page (GET /map-columns)
MapColumnsPage ==
    /\ "fastapi" \notin shown
    /\ auto_mapping' = FastApiAutoMapping(placeholder_list, columns)
    /\ shown' = shown \cup {"fastapi"}
    /\ UNCHANGED <<placeholder_list, columns, column_mapping>>
    /\ UNCHANGED restOfMap

NextMap == RenderMappingSection \/ MapColumnsPage

\* --------------------------------------------------- get_data_as_dicts

\* The most rows a data file of the model has.
MaxRows == 1

\* The cells of the model, as to_dict("records") hands them over: kind is
\* the Python type (nan is the float NaN of a missing cell, none is None),
\* text is str(value).
Cell(kind, text) == [kind |-> kind, text |-> text]

CellValues ==
    { Cell("nan", <<"n", "a", "n">>), Cell("none", <<"N", "o", "n", "e">>),
      Cell("int", <<"5">>), Cell("float", <<"3", ".", "0">>),
      Cell("float", <<"1", ".", "5">>),
      Cell("str", <<"x">>), Cell("str", <<"7">>), Cell("str", <<"1", ",", "5">>),
      Cell("str", <<>>) }

\* The digits of the model's texts.
Digits == {"0", "1", "3", "5", "7"}

\* The suffix of the derived key.
WordsSuffix == <<"_Words">>

\* The data files of the model: the columns A and B, with or without a
\* column that is named A_Words.
DataColumns == { <<<<"A">>, <<"b">>>>, <<<<"A">>, <<"b">>, <<"A">> \o WordsSuffix>> }

\* The rows over a column list: A takes every cell of the model, the other
\* columns a text.
DataRowsOver(cols) ==
    {row \in [1..Len(cols) -> [key : {cols[k] : k \in 1..Len(cols)}, value : CellValues]] :
        \A k \in 1..Len(cols) :
            /\ row[k].key = cols[k]
            /\ k > 1 => row[k].value \in {Cell("str", <<"x">>), Cell("int", <<"5">>)}}

\* The data frames of the model.
DataFrames ==
    UNION {UNION {[1..n -> DataRowsOver(cols)] : n \in 0..MaxRows} : cols \in DataColumns}

\* The mappings of the model, each {placeholder: column_name} as its items:
\* none; a placeholder that is no column; a placeholder named as column A
\* but mapped to column b; a placeholder named A_Words; a column the data
\* file does not have.
Mappings ==
    { <<>>,
      <<[key |-> <<"P">>, value |-> <<"A">>]>>,
      <<[key |-> <<"A">>, value |-> <<"b">>]>>,
      <<[key |-> <<"P">>, value |-> <<"b">>],
        [key |-> <<"A">> \o WordsSuffix, value |-> <<"b">>]>>,
      <<[key |-> <<"P">>, value |-> <<"c">>]>> }

\* key in d, for a dictionary given as the sequence of its items
DictHas(d, key) == \E k \in 1..Len(d) : d[k].key = key

\* d[key]
DictGet(d, key) == d[CHOOSE k \in 1..Len(d) : d[k].key = key].value

\* d[key] = value: an existing key keeps its place, a new one goes last.
DictSet(d, key, value) ==
    IF DictHas(d, key)
    THEN [k \in 1..Len(d) |-> IF d[k].key = key THEN [key |-> key, value |-> value]
                                                ELSE d[k]]
    ELSE Append(d, [key |-> key, value |-> value])

\* The text before the first "." of a float's str().
WholePart(text) ==
    SubSeq(text, 1, Least({i \in 1..Len(text) : text[i] = "."}) - 1)

\* float.is_integer(), read off str(value)
IsInteger(text) ==
    \A i \in 1..Len(text) :
        i > Least({j \in 1..Len(text) : text[j] = "."}) => text[i] = "0"

\* _format_value
FormatValue(value) ==
    IF value.kind \in {"nan", "none"} THEN <<>>
    ELSE IF value.kind = "float" /\ IsInteger(value.text) THEN WholePart(value.text)
    ELSE value.text

\* str.replace(",", "")
RemoveCommas(text) == SelectSeq(text, LAMBDA c : c # ",")

\* str.replace(".", "", 1)
RemoveFirstDot(text) ==
    IF \E i \in 1..Len(text) : text[i] = "."
    THEN LET dot == Least({i \in 1..Len(text) : text[i] = "."})
         IN  SubSeq(text, 1, dot - 1) \o SubSeq(text, dot + 1, Len(text))
    ELSE text

\* str.isdigit()
IsDigit(text) == text # <<>> /\ \A i \in 1..Len(text) : text[i] \in Digits

\* The test of lines 130 and 153: isinstance(value, (int, float)) or a
\* string of digits once its commas and its first dot are taken out. NaN
\* is a float.
LooksNumeric(value) ==
    \/ value.kind \in {"int", "float", "nan"}
    \/ value.kind = "str" /\ IsDigit(RemoveFirstDot(RemoveCommas(value.text)))

\* _convert_to_words: "" for a null and for a text float() refuses, else
\* the words num2words gives for the number.
ConvertToWords(value) ==
    IF value.kind \in {"nan", "none"} THEN <<>>
    ELSE IF value.kind = "str" /\ ~IsDigit(RemoveFirstDot(RemoveCommas(value.text)))
         THEN <<>>
    ELSE <<"words of ">> \o RemoveCommas(value.text)

RECURSIVE AddWords(_, _)
\* for col, value in row.items(): if <looks numeric>: new_row[col_Words] = ...
AddWords(new_row, items) ==
    IF items = <<>> THEN new_row
    ELSE AddWords(IF LooksNumeric(Head(items).value)
                  THEN DictSet(new_row, Head(items).key \o WordsSuffix,
                               ConvertToWords(Head(items).value))
                  ELSE new_row,
                  Tail(items))

\* The row get_data_as_dicts builds without a mapping (lines 127-131).
RowWithoutMapping(row) ==
    AddWords([k \in 1..Len(row) |-> [key |-> row[k].key,
                                     value |-> FormatValue(row[k].value)]],
             row)

RECURSIVE AddPlaceholders(_, _, _)
\* for placeholder, column_name in column_mapping.items() (lines 139-143)
AddPlaceholders(mapped_row, items, row) ==
    IF items = <<>> THEN mapped_row
    ELSE AddPlaceholders(
             DictSet(mapped_row, Head(items).key,
                     IF DictHas(row, Head(items).value)
                     THEN FormatValue(DictGet(row, Head(items).value))
                     ELSE <<>>),
             Tail(items), row)

RECURSIVE AddColumns_Overwriting(_, _)
AddColumns_Overwriting(mapped_row, items) ==
    IF items = <<>> THEN mapped_row
    ELSE AddColumns_Overwriting(
             DictSet(mapped_row, Head(items).key, FormatValue(Head(items).value)),
             Tail(items))

RECURSIVE AddColumns(_, _)
\* for col in row: if col not in mapped_row: mapped_row[col] = ... (145-147)
AddColumns(mapped_row, items) ==
    IF items = <<>> THEN mapped_row
    ELSE AddColumns(IF DictHas(mapped_row, Head(items).key) THEN mapped_row
                    ELSE DictSet(mapped_row, Head(items).key,
                                 FormatValue(Head(items).value)),
                    Tail(items))

\* The row get_data_as_dicts builds with a mapping (lines 138-154).
RowWithMapping(row, column_mapping_arg) ==
    AddWords(AddColumns(AddPlaceholders(<<>>, column_mapping_arg, row), row), row)

\* get_data_as_dicts(column_mapping)
GetDataAsDicts(rows, column_mapping_arg) ==
    IF column_mapping_arg = <<>>
    THEN [r \in 1..Len(rows) |-> RowWithoutMapping(rows[r])]
    ELSE [r \in 1..Len(rows) |-> RowWithMapping(rows[r], column_mapping_arg)]

\* A data file has been loaded.
InitData ==
    /\ df \in DataFrames
    /\ mapping \in Mappings
    /\ data_rows = <<>>
    /\ data_called = FALSE

\* handler.get_data_as_dicts(mapping)
CallGetDataAsDicts ==
    /\ ~data_called
    /\ data_rows' = GetDataAsDicts(df, mapping)
    /\ data_called' = TRUE
    /\ UNCHANGED <<df, mapping>>
    /\ UNCHANGED restOfData

NextData == CallGetDataAsDicts

\* ------------------------------------------------------ batch generation

\* The most rows a generation of the model goes through.
MaxDocs == 2

\* The characters the filename sanitizer replaces: [<>:"/\\|?*]
Forbidden == {"<", ">", ":", "\"", "/", "\\", "|", "?", "*"}

\* ".docx"
Extension == <<".", "d", "o", "c", "x">>

\* "document_"
DocumentPrefix == <<"d", "o", "c", "u", "m", "e", "n", "t", "_">>

\* The decimal digits, digit d at place d + 1.
DecimalDigits == <<"0", "1", "2", "3", "4", "5", "6", "7", "8", "9">>

\* f"{n:04d}", for n below 10000
Pad4(n) ==
    <<DecimalDigits[((n \div 1000) % 10) + 1], DecimalDigits[((n \div 100) % 10) + 1],
      DecimalDigits[((n \div 10) % 10) + 1], DecimalDigits[(n % 10) + 1]>>

\* f"document_{n:04d}.docx"
AutoName(n) == DocumentPrefix \o Pad4(n) \o Extension

Sanitize_KeepsBackslash(filename) ==
    [k \in 1..Len(filename) |->
        IF filename[k] \in Forbidden \ {"\\"} THEN "_" ELSE filename[k]]

\* re.sub(r'[<>:"/\\|?*]', "_", filename)
Sanitize(filename) ==
    [k \in 1..Len(filename) |-> IF filename[k] \in Forbidden THEN "_" ELSE filename[k]]

RECURSIVE JoinPattern(_, _)
\* "".join(filename_parts) of lines 815-824: the value of every column item
\* the row holds and every separator, in the order of the pattern.
JoinPattern(pattern, row_data) ==
    IF pattern = <<>> THEN <<>>
    ELSE (IF Head(pattern).type = "column" /\ DictHas(row_data, Head(pattern).value)
          THEN DictGet(row_data, Head(pattern).value)
          ELSE IF Head(pattern).type = "separator" THEN Head(pattern).value
          ELSE <<>>)
             \o JoinPattern(Tail(pattern), row_data)

\* The filename of the Streamlit loop (lines 809-838) for the row at the
\* 0-based position i.
StreamlitFilename(config, row_data, i) ==
    IF config.mode = "pattern" /\ config.pattern # <<>>
    THEN Sanitize(JoinPattern(config.pattern, row_data) \o Extension)
    ELSE IF config.mode = "single" /\ config.column # <<>>
    THEN IF DictHas(row_data, config.column)
         THEN Sanitize(DictGet(row_data, config.column) \o Extension)
         ELSE AutoName(i + 1)
    ELSE AutoName(i + 1)

\* The filename of generate_documents (lines 237-242) for the row at the
\* 1-based position n.
GenerateDocumentsFilename(filename_column, row_data, n) ==
    IF filename_column # <<>> /\ DictHas(row_data, filename_column)
    THEN Sanitize(DictGet(row_data, filename_column) \o Extension)
    ELSE AutoName(n)

RECURSIVE BadEscapeFrom(_, _)
\* re.sub reads the value as a replacement template: from position i on, a
\* backslash before anything but a backslash or n is refused with re.error
\* (the model's texts hold no other escape).
BadEscapeFrom(value, i) ==
    IF i > Len(value) THEN FALSE
    ELSE IF value[i] # "\\" THEN BadEscapeFrom(value, i + 1)
    ELSE IF i = Len(value) THEN TRUE
    ELSE IF value[i + 1] \in {"\\", "n"} THEN BadEscapeFrom(value, i + 2)
    ELSE TRUE

\* The value is refused as a replacement template.
BadEscape(value) == BadEscapeFrom(value, 1)

RECURSIVE HasTokenParagraph(_)
\* Some paragraph that the replacement loops reach in this container holds
\* a token, so _replace_text_in_paragraph gets to its re.sub calls.
HasTokenParagraph(container) ==
    \/ \E k \in 1..Len(container.paragraphs) :
           FindAll(ParagraphText(container.paragraphs[k])) # <<>>
    \/ \E t \in 1..Len(container.tables) : \E c \in 1..Len(container.tables[t]) :
           HasTokenParagraph(container.tables[t][c])

\* generate_document(data) raises: a paragraph with a token is reached and
\* some value of the replacement dictionary is refused by re.sub.
GenerateDocumentRaises(self, data) ==
    LET doc == Document(self.template_bytes)
        replacements == BuildReplacements(self.placeholders, data, PreservedOrDefault(<<>>))
    IN  /\ \/ HasTokenParagraph(doc.body)
           \/ HasTokenParagraph(doc.header)
           \/ HasTokenParagraph(doc.footer)
        /\ \E key \in DOMAIN replacements : BadEscape(replacements[key])

\* str(e) of the re.error that generate_document lets through.
ReError == <<"bad escape">>

\* The rows of the model: column a, which is a placeholder of the template,
\* and column n, which is not.
GenRows ==
    { <<[key |-> <<"a">>, value |-> va], [key |-> <<"n">>, value |-> vn]>> :
        va \in {<<"1">>, <<"\\", "x">>},
        vn \in {<<"r">>, <<"<", ">", ":", "\"", "/", "\\", "|", "?", "*">>} }

\* The row lists of the model.
GenRowLists == UNION {[1..n -> GenRows] : n \in 0..MaxDocs}

\* One item of st.session_state.filename_pattern.
PatternItem(type, value) == [type |-> type, value |-> value]

\* A filename setting: mode, filename_column (<<>> for none) and pattern.
FilenameConfig(mode, column, pattern) ==
    [mode |-> mode, column |-> column, pattern |-> pattern]

\* The filename settings of the Streamlit session in the model.
StreamlitConfigs ==
    { FilenameConfig("auto", <<>>, <<>>),
      FilenameConfig("single", <<"n">>, <<>>),
      FilenameConfig("single", <<"z">>, <<>>),
      FilenameConfig("pattern", <<"n">>, <<>>),
      FilenameConfig("pattern", <<>>,
                     <<PatternItem("column", <<"n">>), PatternItem("separator", <<"-", ":">>),
                       PatternItem("column", <<"z">>), PatternItem("column", <<"a">>)>>),
      FilenameConfig("pattern", <<>>, <<PatternItem("separator", <<"?", ".">>)>>) }

\* The filename_column values the FastAPI form sends in the model.
FastApiConfigs ==
    { FilenameConfig("auto", <<>>, <<>>),
      FilenameConfig("single", <<"n">>, <<>>),
      FilenameConfig("single", <<"z">>, <<>>) }

\* The template of the generations of the model: one placeholder, a.
GenTemplate == BodyOnly(<< <<<<"{", "a">>, <<"}">>>>, <<<<"x">>>> >>)

\* What reaches the caller when generate_document raises: the exception as
\* it was raised, or the text st.error shows. Nothing names the row.
Failure(text) == [text |-> text, row_index |-> NoRowIndex]

\* st.session_state.generated_docs when the button is pressed: None (<<>>),
\* or the list an earlier generation of the session stored.
EarlierDocs ==
    {<<>>, <<[filename |-> <<"o", "l", "d">> \o Extension, doc_bytes |-> Save(GenTemplate)]>>}

\* "Generate All Documents" has been pressed, or POST /generate has come
\* in, with a processor for the template and the rows of the data file.
InitGen ==
    /\ given = Save(GenTemplate)
    /\ processor = NewProcessor(given)
    /\ generated = <<>>
    /\ front \in {"streamlit", "fastapi"}
    /\ gen_rows \in GenRowLists
    /\ filename_config \in (IF front = "streamlit" THEN StreamlitConfigs ELSE FastApiConfigs)
    /\ documents = <<>>
    /\ row_idx = 0
    /\ gen_pc = "loop"
    /\ gen_error = Failure(<<>>)
    /\ generated_docs \in (IF front = "streamlit" THEN EarlierDocs ELSE {<<>>})

\* One passage of the loop whose generate_document returns.
GenerateRow ==
    /\ gen_pc = "loop"
    /\ row_idx < Len(gen_rows)
    /\ ~GenerateDocumentRaises(processor, gen_rows[row_idx + 1])
    /\ LET row_data == gen_rows[row_idx + 1]
           filename == IF front = "streamlit"
                       THEN StreamlitFilename(filename_config, row_data, row_idx)
                       ELSE GenerateDocumentsFilename(filename_config.column, row_data,
                                                      row_idx + 1)
       IN  \E order \in Orders(processor.placeholders \ PreservedOrDefault(<<>>)) :
               documents' = Append(documents,
                   [filename |-> filename,
                    doc_bytes |-> generate_document(processor, row_data, <<>>, order).output])
    /\ row_idx' = row_idx + 1
    /\ UNCHANGED <<front, gen_rows, filename_config, gen_pc, gen_error, generated_docs>>
    /\ UNCHANGED restOfGen

GenerateRowRaises_StoresPartial ==
    /\ gen_pc = "loop"
    /\ row_idx < Len(gen_rows)
    /\ GenerateDocumentRaises(processor, gen_rows[row_idx + 1])
    /\ IF front = "streamlit"
       THEN /\ gen_pc' = "reported"
            /\ gen_error' = Failure(<<"Error generating documents: ">> \o ReError)
            /\ generated_docs' = documents
       ELSE /\ gen_pc' = "raised"
            /\ gen_error' = Failure(ReError)
            /\ generated_docs' = generated_docs
    /\ UNCHANGED <<front, gen_rows, filename_config, documents, row_idx>>
    /\ UNCHANGED restOfGen

\* One passage of the loop whose generate_document raises: generate_documents
\* and the FastAPI handler let the exception through; the Streamlit handler
\* catches it and shows its text. The documents appended so far are dropped
\* with the local list.
GenerateRowRaises ==
    /\ gen_pc = "loop"
    /\ row_idx < Len(gen_rows)
    /\ GenerateDocumentRaises(processor, gen_rows[row_idx + 1])
    /\ IF front = "streamlit"
       THEN /\ gen_pc' = "reported"
            /\ gen_error' = Failure(<<"Error generating documents: ">> \o ReError)
       ELSE /\ gen_pc' = "raised"
            /\ gen_error' = Failure(ReError)
    /\ UNCHANGED <<front, gen_rows, filename_config, documents, row_idx, generated_docs>>
    /\ UNCHANGED restOfGen

\* The loop is through: the Streamlit handler stores the documents in the
\* session, generate_documents returns them.
GenerateDone ==
    /\ gen_pc = "loop"
    /\ row_idx = Len(gen_rows)
    /\ gen_pc' = "returned"
    /\ generated_docs' = IF front = "streamlit" THEN documents ELSE generated_docs
    /\ UNCHANGED <<front, gen_rows, filename_config, documents, row_idx, gen_error>>
    /\ UNCHANGED restOfGen

NextGen == GenerateRow \/ GenerateRowRaises \/ GenerateDone

\* -------------------------------------------------------- render_template

\* text[i..] starts with the piece.
StartsAt(text, i, piece) ==
    /\ i + Len(piece) - 1 <= Len(text)
    /\ SubSeq(text, i, i + Len(piece) - 1) = piece

RECURSIVE ReplaceFrom(_, _, _, _)
\* str.replace(old, new) from position i on, for a non-empty old: the
\* occurrences of old are taken leftmost first and do not overlap.
ReplaceFrom(text, old, new, i) ==
    IF i > Len(text) THEN <<>>
    ELSE IF StartsAt(text, i, old) THEN new \o ReplaceFrom(text, old, new, i + Len(old))
    ELSE <<text[i]>> \o ReplaceFrom(text, old, new, i + 1)

\* result.replace(f"{{{key}}}", str(value))
ReplaceKey(result, key, value) == ReplaceFrom(result, <<"{">> \o key \o <<"}">>, value, 1)

RECURSIVE RenderTemplate(_, _)
\* render_template: one replace after the other, in the order of the row's
\* items, each on the result of the one before.
RenderTemplate(template, data) ==
    IF data = <<>> THEN template
    ELSE RenderTemplate(ReplaceKey(template, Head(data).key, Head(data).value), Tail(data))

\* The templates of the model: a key's token alone, twice, beside another
\* key's token, in another case, with inner spaces, and an unknown token.
EmailTemplates ==
    { <<"{", "a", "}">>,
      <<"{", "a", "}", "{", "a", "}">>,
      <<"x", "{", "a", "}", " ", "{", "b", "}">>,
      <<"{", "A", "}", "{", "a", "}">>,
      <<"{", " ", "a", " ", "}">>,
      <<"{", "c", "}", "{", "b", "}">>,
      <<"{", "{", "a", "}", "}">>,
      <<"n", "o", " ", "t", "o", "k", "e", "n">> }

\* The texts the values of the model's rows are str() of.
EmailValues == {<<"1">>, <<"2">>, <<"{", "b", "}">>, <<>>}

\* The rows of the model, as their items: no key, key a, keys a and b in
\* either order.
EmailRows ==
    {<<>>}
        \cup {<<[key |-> <<"a">>, value |-> v]>> : v \in EmailValues}
        \cup {<<[key |-> <<"a">>, value |-> v], [key |-> <<"b">>, value |-> <<"2">>]>> :
                 v \in EmailValues}
        \cup {<<[key |-> <<"b">>, value |-> <<"2">>], [key |-> <<"a">>, value |-> v]>> :
                 v \in EmailValues}

\* A template text and a row are at hand.
InitRender ==
    /\ email_template \in EmailTemplates
    /\ email_row \in EmailRows
    /\ rendered = <<>>
    /\ render_called = FALSE

\* email_handler.render_template(template, row)
CallRenderTemplate ==
    /\ ~render_called
    /\ rendered' = RenderTemplate(email_template, email_row)
    /\ render_called' = TRUE
    /\ UNCHANGED <<email_template, email_row>>
    /\ UNCHANGED restOfRender

NextRender == CallRenderTemplate


\* ---------------------------------------------- the Streamlit detail table

\* failed_item = next((f for f in send_results["failed_details"]
\*                     if f["row_index"] == row_idx), None), as <<>> for None.
FailedItem(send_results, row_index) ==
    LET hits == {f \in 1..Len(send_results.failed_details) :
                    send_results.failed_details[f].row_index = row_index}
    IN  IF hits = {} THEN <<>>
        ELSE <<send_results.failed_details[CHOOSE f \in hits : \A g \in hits : f <= g]>>

\* detailed_results: one line per job of the list handed to the dispatcher,
\* Failed when failed_details holds a record of the job's row_index.
DetailedResults(list, send_results) ==
    [k \in 1..Len(list) |->
        LET failed_item == FailedItem(send_results, list[k].row_index[1])
        IN  [Row |-> list[k].row_index[1] + 1,
             Email |-> list[k].to_email,
             Status |-> IF failed_item # <<>> THEN "Failed" ELSE "Sent",
             Error |-> IF failed_item # <<>> THEN failed_item[1].error ELSE <<>>]]


\* ------------------------------------------------- the FastAPI email queue

\* The items of the queue of the model.
QueueLen == 2

\* The requests of a session that the model goes through.
MaxRequests == 3

\* The most processes the application is served by. A handler is an async
\* def without an await: within one process it runs from its first line to
\* its return before another handler starts.
MaxWorkers == 2

\* The index of a request: one of the queue, or the first beyond it.
Indexes == 0..QueueLen

\* email_queue.append({..., "status": "Pending"}) for every row with a
\* recipient; json.dump(email_queue, f)
PreparedQueue == [i \in 1..QueueLen |-> [index |-> i - 1, status |-> "Pending"]]

\* The handler of request r is between its first line and its return.
Running(r) == requests[r].at \in {"send", "write"}

\* The process of request r runs no other handler.
Free(r) ==
    \A q \in 1..Len(requests) :
        (q # r /\ requests[q].worker = requests[r].worker) => ~Running(q)

\* for i, e in enumerate(email_queue): if i == index: item = e
\* and 0 <= index < len(email_queue)
InQueue(email_queue, index) == 0 <= index /\ index < Len(email_queue)

\* item["status"] = "Sent" if success else "Failed"
\* email_queue[item_idx_in_list] = item
WithSendStatus(email_queue, index, success) ==
    [email_queue EXCEPT ![index + 1].status = IF success THEN "Sent" ELSE "Failed"]

\* email_queue[index]["status"] = "Skipped"
WithSkipped(email_queue, index) ==
    [email_queue EXCEPT ![index + 1].status = "Skipped"]

\* /prepare-emails has written the queue; no request has come in.
InitQueue ==
    /\ queue_file = PreparedQueue
    /\ requests = <<>>
    /\ deliveries = <<>>
    /\ workers \in 1..MaxWorkers

\* POST /send-single/{index} or POST /skip-single/{index} reaches a process.
Receive ==
    /\ Len(requests) < MaxRequests
    /\ \E kind \in {"send", "skip"}, index \in Indexes, worker \in 1..workers :
          requests' = Append(requests, [kind |-> kind, index |-> index, worker |-> worker,
                                        at |-> "read", email_queue |-> <<>>,
                                        success |-> FALSE, response |-> "none"])
    /\ UNCHANGED <<queue_file, deliveries, workers>>
    /\ UNCHANGED restOfQueue

\* send_single_email: email_queue = json.load(f), and the search for the item.
SendRead ==
    /\ \E r \in 1..Len(requests) :
          /\ requests[r].kind = "send"
          /\ requests[r].at = "read"
          /\ Free(r)
          /\ requests' = [requests EXCEPT
                ![r].email_queue = queue_file,
                ![r].at = IF InQueue(queue_file, requests[r].index) THEN "send" ELSE "done",
                ![r].response = IF InQueue(queue_file, requests[r].index)
                                THEN "none" ELSE "Email not found"]
    /\ UNCHANGED <<queue_file, deliveries, workers>>
    /\ UNCHANGED restOfQueue

\* success, msg = handler.send_personalized_email(...): the message is
\* accepted, or the call reports a failure.
SendTransmit ==
    /\ \E r \in 1..Len(requests) :
          /\ requests[r].kind = "send"
          /\ requests[r].at = "send"
          /\ \E success \in BOOLEAN :
                /\ requests' = [requests EXCEPT ![r].success = success, ![r].at = "write"]
                /\ deliveries' = IF success THEN Append(deliveries, requests[r].index)
                                  ELSE deliveries
    /\ UNCHANGED <<queue_file, workers>>
    /\ UNCHANGED restOfQueue

\* send_single_email: the status is set on the copy read at the start and the
\* whole copy is written back.
SendWrite ==
    /\ \E r \in 1..Len(requests) :
          /\ requests[r].kind = "send"
          /\ requests[r].at = "write"
          /\ queue_file' = WithSendStatus(requests[r].email_queue, requests[r].index,
                                          requests[r].success)
          /\ requests' = [requests EXCEPT
                ![r].email_queue = queue_file',
                ![r].at = "done",
                ![r].response = IF requests[r].success THEN "success" ELSE "error"]
    /\ UNCHANGED <<deliveries, workers>>
    /\ UNCHANGED restOfQueue

\* skip_single_email: email_queue = json.load(f)
SkipRead ==
    /\ \E r \in 1..Len(requests) :
          /\ requests[r].kind = "skip"
          /\ requests[r].at = "read"
          /\ Free(r)
          /\ requests' = [requests EXCEPT
                ![r].email_queue = queue_file,
                ![r].at = IF InQueue(queue_file, requests[r].index) THEN "write" ELSE "done",
                ![r].response = IF InQueue(queue_file, requests[r].index)
                                THEN "none" ELSE "success"]
    /\ UNCHANGED <<queue_file, deliveries, workers>>
    /\ UNCHANGED restOfQueue

\* skip_single_email: the status is set on the copy and the copy written back.
SkipWrite ==
    /\ \E r \in 1..Len(requests) :
          /\ requests[r].kind = "skip"
          /\ requests[r].at = "write"
          /\ queue_file' = WithSkipped(requests[r].email_queue, requests[r].index)
          /\ requests' = [requests EXCEPT
                ![r].email_queue = queue_file', ![r].at = "done", ![r].response = "success"]
    /\ UNCHANGED <<deliveries, workers>>
    /\ UNCHANGED restOfQueue

NextQueue == Receive \/ SendRead \/ SendTransmit \/ SendWrite \/ SkipRead \/ SkipWrite


\* ------------------------------------------------- the Streamlit session

\* The files a user may give the template uploader: what get_placeholders
\* lists for each, and a file DocumentProcessor cannot read.
TemplateFiles ==
    { [name |-> "t0", readable |-> TRUE, placeholders |-> <<>>],
      [name |-> "t1", readable |-> TRUE, placeholders |-> <<<<"a">>>>],
      [name |-> "t2", readable |-> TRUE, placeholders |-> <<<<"a">>, <<"b">>>>],
      [name |-> "t3", readable |-> FALSE, placeholders |-> <<>>] }

\* The files a user may give the data uploader: the columns and the number
\* of rows of each, and a file DataHandler cannot read.
DataFiles ==
    { [name |-> "d1", readable |-> TRUE, columns |-> <<<<"a">>, <<"b">>>>, rows |-> 2],
      [name |-> "d2", readable |-> TRUE, columns |-> <<<<"b">>>>, rows |-> 1],
      [name |-> "d3", readable |-> FALSE, columns |-> <<>>, rows |-> 0] }

\* max(st.session_state.step, n)
MaxStep(current, n) == IF current >= n THEN current ELSE n

RECURSIVE SelectedMapping(_, _, _)
\* The "Create mapping UI" loop: each placeholder's selectbox stands at the
\* column the dictionary holds for it when the data has that column, and
\* at "-- Select Column --" otherwise; the mapping gets the selected columns.
SelectedMapping(names, cols, selection) ==
    IF names = <<>> THEN <<>>
    ELSE (IF /\ DictHas(selection, Head(names))
             /\ \E k \in 1..Len(cols) : cols[k] = DictGet(selection, Head(names))
          THEN <<[key |-> Head(names), value |-> DictGet(selection, Head(names))]>>
          ELSE <<>>)
             \o SelectedMapping(Tail(names), cols, selection)

\* unmapped = [p for p in placeholders if p not in mapping]; not unmapped
AllMapped(names, items) == \A k \in 1..Len(names) : DictHas(items, names[k])

\* render_column_mapping with the selectboxes standing at selection: the
\* column_mapping and the step it leaves.
ColumnMappingRendered(selection) ==
    LET names == template_processor[1].placeholders
        cols == data_handler[1].columns
        items == SelectedMapping(names, cols, selection)
    IN  [column_mapping |-> items,
         step |-> IF AllMapped(names, items) THEN MaxStep(step, 4) ELSE step]

\* render_column_mapping when the tab is opened: the selectboxes are made
\* anew from column_mapping, or from the auto-mapping when it is empty.
ColumnMappingOpened ==
    ColumnMappingRendered(
        IF session_mapping = <<>>
        THEN StreamlitAutoMapping(template_processor[1].placeholders,
                                  data_handler[1].columns)
        ELSE session_mapping)

\* The selection with the selectbox of one placeholder moved to a column,
\* or to "-- Select Column --" (<<>>).
Selecting(selection, placeholder, choice) ==
    IF choice # <<>> THEN DictSet(selection, placeholder, choice[1])
    ELSE SelectSeq(selection, LAMBDA item : item.key # placeholder)

\* The email jobs of the send section for the rows of the loaded data:
\* "attachment_data": generated_docs[row_idx][1], <<>> when the list has no
\* such entry (IndexError).
SessionJobs ==
    [k \in 1..data_handler[1].rows |->
        [row_index |-> k - 1,
         attachment |-> IF k <= Len(session_docs) THEN <<session_docs[k]>> ELSE <<>>]]

\* init_session_state
InitSession ==
    /\ template_processor = <<>>
    /\ data_handler = <<>>
    /\ session_mapping = <<>>
    /\ step = 1
    /\ current_tab = 0
    /\ session_docs = <<>>
    /\ last_generation = <<>>

\* render_template_upload with a file in the uploader.
UploadTemplate ==
    /\ current_tab = 0
    /\ \E file \in TemplateFiles :
          IF file.readable
          THEN /\ template_processor' = <<file>>
               /\ step' = IF file.placeholders # <<>> THEN MaxStep(step, 2) ELSE step
          ELSE /\ template_processor' = <<>>
               /\ step' = step
    /\ UNCHANGED <<data_handler, session_mapping, current_tab, session_docs,
                   last_generation>>
    /\ UNCHANGED restOfSession

\* render_data_upload with a file in the uploader.
UploadData ==
    /\ current_tab = 1
    /\ template_processor # <<>>
    /\ \E file \in DataFiles :
          IF file.readable
          THEN /\ data_handler' = <<file>>
               /\ step' = MaxStep(step, 3)
          ELSE /\ data_handler' = <<>>
               /\ step' = step
    /\ UNCHANGED <<template_processor, session_mapping, current_tab, session_docs,
                   last_generation>>
    /\ UNCHANGED restOfSession

\* A tab button of main, or a Back or Next button: go_to_tab(i), and the
\* rerun that shows the tab.
GoToTab ==
    /\ \E i \in 0..4 :
          /\ i # current_tab
          /\ current_tab' = i
          /\ IF i = 2 /\ template_processor # <<>> /\ data_handler # <<>>
             THEN /\ session_mapping' = ColumnMappingOpened.column_mapping
                  /\ step' = ColumnMappingOpened.step
             ELSE UNCHANGED <<session_mapping, step>>
    /\ UNCHANGED <<template_processor, data_handler, session_docs, last_generation>>
    /\ UNCHANGED restOfSession

\* A selectbox of the mapping tab is moved, and the rerun.
SelectColumn ==
    /\ current_tab = 2
    /\ template_processor # <<>>
    /\ data_handler # <<>>
    /\ \E p \in 1..Len(template_processor[1].placeholders) :
          \E choice \in {<<>>} \cup {<<data_handler[1].columns[c]>> :
                                        c \in 1..Len(data_handler[1].columns)} :
              LET shown_now == ColumnMappingRendered(
                      Selecting(session_mapping, template_processor[1].placeholders[p],
                                choice))
              IN  /\ session_mapping' = shown_now.column_mapping
                  /\ step' = shown_now.step
    /\ UNCHANGED <<template_processor, data_handler, current_tab, session_docs,
                   last_generation>>
    /\ UNCHANGED restOfSession

\* "Generate All Documents" of render_generate_section, shown when step is
\* at least 4: one document per row of the loaded data, stored in the
\* session.
Generate ==
    /\ current_tab = 3
    /\ step >= 4
    /\ template_processor # <<>>
    /\ data_handler # <<>>
    /\ session_docs' = [k \in 1..data_handler[1].rows |->
                            [data |-> data_handler[1].name, row |-> k - 1]]
    /\ last_generation' = <<[placeholders |-> template_processor[1].placeholders,
                              columns |-> data_handler[1].columns,
                              mapping |-> session_mapping]>>
    /\ UNCHANGED <<template_processor, data_handler, session_mapping, step, current_tab>>
    /\ UNCHANGED restOfSession

\* "Clear All & Start Over": every key of the session is deleted, and
\* init_session_state runs again.
ClearAll ==
    /\ step > 1
    /\ template_processor' = <<>>
    /\ data_handler' = <<>>
    /\ session_mapping' = <<>>
    /\ step' = 1
    /\ current_tab' = 0
    /\ session_docs' = <<>>
    /\ last_generation' = <<>>
    /\ UNCHANGED restOfSession

NextSession ==
    UploadTemplate \/ UploadData \/ GoToTab \/ SelectColumn \/ Generate \/ ClearAll


\* ------------------------------------------ the Streamlit send section

\* The rows of the data of the model.
SendRows == 2

\* The columns the email column is chosen from.
SendColumns == {"X", "Y"}

\* What a cell holds: nothing, an address, or a text that is no address.
CellTexts == {"", "a@x.org", "bad"}

\* What a user types into a text input: an address, or a text that is none.
TypedTexts == {"c@x.org", "worse"}

\* EmailHandler.validate_email on the texts of the model.
ValidateEmail(text) == text \in {"a@x.org", "c@x.org"}

\* The validation loop over data_df.iterrows(): how the row stands under
\* the email column.
Validation(row_index) ==
    LET email_value == data_df[row_index + 1][email_column]
    IN  IF email_value = "" THEN "missing"
        ELSE IF ValidateEmail(email_value) THEN "valid"
        ELSE "invalid"

RECURSIVE ValidJobs(_)
\* "Add valid": a job for each row of validation_results["valid"], from
\* row_index on, that is not in skip_rows.
ValidJobs(row_index) ==
    IF row_index >= Len(data_df) THEN <<>>
    ELSE (IF Validation(row_index) = "valid" /\ row_index \notin skip_rows
          THEN <<[to_email |-> data_df[row_index + 1][email_column],
                  row_index |-> row_index]>>
          ELSE <<>>)
             \o ValidJobs(row_index + 1)

RECURSIVE ManualJobs(_)
\* "Add manuals": a job for each item of missing_emails whose row is not in
\* skip_rows and whose text is an address.
ManualJobs(items) ==
    IF items = <<>> THEN <<>>
    ELSE (IF Head(items).key \notin skip_rows /\ ValidateEmail(Head(items).value)
          THEN <<[to_email |-> Head(items).value, row_index |-> Head(items).key]>>
          ELSE <<>>)
             \o ManualJobs(Tail(items))

\* The send section is shown for a data file; nothing has been entered.
InitSend ==
    /\ data_df \in [1..SendRows -> [SendColumns -> CellTexts]]
    /\ email_column \in SendColumns
    /\ missing_emails = <<>>
    /\ skip_rows = {}
    /\ send_list = <<>>
    /\ confirmed = FALSE

\* The selectbox "Column containing recipient email addresses" is moved.
SelectEmailColumn ==
    /\ ~confirmed
    /\ \E col \in SendColumns \ {email_column} : email_column' = col
    /\ UNCHANGED <<data_df, missing_emails, skip_rows, send_list, confirmed>>
    /\ UNCHANGED restOfSend

\* A text is typed into "Enter email" of a row that misses its address.
EnterManualEmail ==
    /\ ~confirmed
    /\ \E row_index \in 0..(Len(data_df) - 1), manual_email \in TypedTexts :
          /\ Validation(row_index) = "missing"
          /\ missing_emails' = DictSet(missing_emails, row_index, manual_email)
    /\ UNCHANGED <<data_df, email_column, skip_rows, send_list, confirmed>>
    /\ UNCHANGED restOfSend

\* The text of "Correct email" of a row with an invalid address is changed.
CorrectEmail ==
    /\ ~confirmed
    /\ \E row_index \in 0..(Len(data_df) - 1), corrected_email \in TypedTexts :
          /\ Validation(row_index) = "invalid"
          /\ corrected_email # data_df[row_index + 1][email_column]
          /\ missing_emails' = DictSet(missing_emails, row_index, corrected_email)
    /\ UNCHANGED <<data_df, email_column, skip_rows, send_list, confirmed>>
    /\ UNCHANGED restOfSend

\* The "Skip" checkbox of a row that misses its address is ticked or cleared.
ToggleSkip ==
    /\ ~confirmed
    /\ \E row_index \in 0..(Len(data_df) - 1) :
          /\ Validation(row_index) = "missing"
          /\ skip_rows' = IF row_index \in skip_rows THEN skip_rows \ {row_index}
                           ELSE skip_rows \cup {row_index}
    /\ UNCHANGED <<data_df, email_column, missing_emails, send_list, confirmed>>
    /\ UNCHANGED restOfSend

\* "Confirm & Send All Emails": the job list handed to send_batch_emails.
ConfirmSend ==
    /\ ~confirmed
    /\ send_list' = ValidJobs(0) \o ManualJobs(missing_emails)
    /\ confirmed' = TRUE
    /\ UNCHANGED <<data_df, email_column, missing_emails, skip_rows>>
    /\ UNCHANGED restOfSend

NextSend ==
    SelectEmailColumn \/ EnterManualEmail \/ CorrectEmail \/ ToggleSkip \/ ConfirmSend

\* ------------------------------------------------------- specifications

\* No batch is being sent: send_batch_emails is called with no job and has
\* not started.
IdleBatch ==
    /\ email_data_list = <<>>
    /\ progress_callback = FALSE
    /\ delay_seconds = 1
    /\ results = InitialResults(0)
    /\ idx = 0
    /\ pc = "idle"
    /\ exc = NoExc
    /\ server = "none"
    /\ connects = 0
    /\ starttlsCalls = 0
    /\ logins = 0
    /\ attempts = <<>>
    /\ transmitted = <<>>
    /\ failures = <<>>
    /\ sleeps = <<>>
    /\ callbacks = <<>>
    /\ exits = 0
    /\ cause = NoExc

\* No document is being generated: a processor of the empty document.
IdleDoc ==
    /\ given = <<>>
    /\ processor = NewProcessor(<<>>)
    /\ generated = <<>>

\* No data file and no template are loaded in either front end.
IdleMap ==
    /\ placeholder_list = <<>>
    /\ columns = <<>>
    /\ column_mapping = <<>>
    /\ auto_mapping = <<>>
    /\ shown = {}

\* No data file is loaded.
IdleData ==
    /\ df = <<>>
    /\ mapping = <<>>
    /\ data_rows = <<>>
    /\ data_called = FALSE

\* No generation is under way.
IdleGen ==
    /\ front = "none"
    /\ gen_rows = <<>>
    /\ filename_config = FilenameConfig("auto", <<>>, <<>>)
    /\ documents = <<>>
    /\ row_idx = 0
    /\ gen_pc = "idle"
    /\ gen_error = Failure(<<>>)
    /\ generated_docs = <<>>

\* No template is being rendered.
IdleRender ==
    /\ email_template = <<>>
    /\ email_row = <<>>
    /\ rendered = <<>>
    /\ render_called = FALSE

\* No queue has been prepared.
IdleQueue ==
    /\ queue_file = <<>>
    /\ requests = <<>>
    /\ deliveries = <<>>
    /\ workers = 0

\* No Streamlit session is open.
IdleSession ==
    /\ template_processor = <<>>
    /\ data_handler = <<>>
    /\ session_mapping = <<>>
    /\ step = 0
    /\ current_tab = 0
    /\ session_docs = <<>>
    /\ last_generation = <<>>

\* No send section is shown.
IdleSend ==
    /\ data_df = <<>>
    /\ email_column = ""
    /\ missing_emails = <<>>
    /\ skip_rows = {}
    /\ send_list = <<>>
    /\ confirmed = FALSE

\* A call of send_batch_emails is about to start; no processor is in use.
InitBatchOnly ==
    IdleSend /\ IdleSession /\ IdleQueue /\ IdleDoc /\ IdleMap /\ IdleData /\ IdleGen
        /\ IdleRender /\ InitBatch

\* One call of send_batch_emails, for every input and every environment.
SpecBatch == InitBatchOnly /\ [][NextBatch]_vars

NextDoc == GenerateDocument

\* A processor has been constructed; no batch is being sent.
InitDocOnly ==
    IdleSend /\ IdleSession /\ IdleQueue /\ IdleBatch /\ IdleMap /\ IdleData
        /\ IdleGen /\ IdleRender /\ InitDoc

\* A processor and the generate_document calls made on it.
SpecDoc == InitDocOnly /\ [][NextDoc]_vars

\* The mapping step is about to be shown; nothing else is in use.
InitMapOnly ==
    IdleSend /\ IdleSession /\ IdleQueue /\ IdleBatch /\ IdleDoc /\ IdleData
        /\ IdleGen /\ IdleRender /\ InitMap

\* The mapping step of both front ends on one template and one data file.
SpecMap == InitMapOnly /\ [][NextMap]_vars

\* A data file is loaded; nothing else is in use.
InitDataOnly ==
    IdleSend /\ IdleSession /\ IdleQueue /\ IdleBatch /\ IdleDoc /\ IdleMap /\ IdleGen
        /\ IdleRender /\ InitData

\* One call of get_data_as_dicts on a data file, with or without a mapping.
SpecData == InitDataOnly /\ [][NextData]_vars

\* A generation is about to start; no batch is sent, no mapping step shown.
InitGenOnly ==
    IdleSend /\ IdleSession /\ IdleQueue /\ IdleBatch /\ IdleMap /\ IdleData
        /\ IdleRender /\ InitGen

\* One batch generation in either front end.
SpecGen == InitGenOnly /\ [][NextGen]_vars

\* A template is about to be rendered; nothing else is in use.
InitRenderOnly ==
    IdleSend /\ IdleSession /\ IdleQueue /\ IdleBatch /\ IdleDoc /\ IdleMap
        /\ IdleData /\ IdleGen /\ InitRender

\* One call of render_template.
SpecRender == InitRenderOnly /\ [][NextRender]_vars

\* A queue has been prepared; nothing else is in use.
InitQueueOnly ==
    IdleSend /\ IdleSession /\ IdleBatch /\ IdleDoc /\ IdleMap /\ IdleData /\ IdleGen
        /\ IdleRender /\ InitQueue

\* The /send-single and /skip-single requests of one session on its queue.
SpecQueue == InitQueueOnly /\ [][NextQueue]_vars

\* A Streamlit session has been opened; nothing else is in use.
InitSessionOnly ==
    IdleSend /\ IdleQueue /\ IdleBatch /\ IdleDoc /\ IdleMap /\ IdleData /\ IdleGen /\ IdleRender
        /\ InitSession

\* The uploads, mapping edits, navigation and generations of one session.
SpecSession == InitSessionOnly /\ [][NextSession]_vars

\* The send section is shown; nothing else is in use.
InitSendOnly ==
    IdleSession /\ IdleQueue /\ IdleBatch /\ IdleDoc /\ IdleMap /\ IdleData /\ IdleGen
        /\ IdleRender /\ InitSend

\* The entries made in the send section up to the pressing of the button.
SpecSend == InitSendOnly /\ [][NextSend]_vars

\* ------------------------------------------------- send_batch_emails: claims

\* The call has returned its Batch Result.
Returned == pc = "done"

\* The connection was opened, secured and logged in.
Established == connects = 1 /\ logins = 1 /\ cause \notin {"connect", "starttls", "login"}

\* Nothing but jobs raised (or nothing at all): the loop ran to its end and
\* the connection was taken down in good order.
RanThrough == Returned /\ cause = NoExc

\* i has been attempted.
Attempted(i) == \E a \in 1..Len(attempts) : attempts[a] = i

\* C1: a job whose message build or transmission raises does not abort the
\* batch. The exception of a job never leaves the loop (the only exceptions
\* that do are those of the connection set-up, the callback, the delay and
\* the teardown), and whatever the batch length and the failing position k,
\* every job after k is attempted in every call that no callback or delay
\* cut short.
C1_JobFailureDoesNotAbort ==
    /\ cause \notin JobErrors
    /\ exc \notin JobErrors
    /\ \A k \in 1..Len(failures) :
        (Returned /\ cause \notin {"callback", "sleep"}) =>
            \A j \in (failures[k].idx + 1)..(Total - 1) : Attempted(j)

\* C1 witness: the first of three jobs raised, the two after it were
\* attempted and accepted by the server.
C1_Witness ==
    /\ Returned
    /\ Total = 3
    /\ Len(failures) = 1
    /\ failures[1].idx = 0
    /\ transmitted = <<1, 2>>

\* C2: when the connection, STARTTLS or login raises, no job is attempted and
\* the result has sent = 0, failed = total and exactly one record, the
\* synthetic one with row_index -1, whatever the batch size.
C2_ConnectionFailure ==
    (Returned /\ cause \in {"connect", "starttls", "login"}) =>
        /\ attempts = <<>>
        /\ results.sent = 0
        /\ results.failed = Total
        /\ Len(results.failed_details) = 1
        /\ results.failed_details[1].row_index = -1
        /\ results.failed_details[1].email = "Global Batch Error"

\* C2 witness: login raised with three jobs waiting.
C2_Witness ==
    /\ Returned
    /\ cause = "login"
    /\ Total = 3
    /\ results.failed = 3

\* The record the handler of job i's try block owes to failed_details.
OwedRecord(f) ==
    LET job == email_data_list[f.idx + 1]
    IN  [row_index |-> IF job.row_index = <<>> THEN f.idx ELSE job.row_index[1],
         email |-> job.to_email,
         error |-> <<f.err>>]

\* failed_details starts with one record per job that raised, in the order
\* in which they raised, each with the job's row_index (its list position
\* when it has none), its to_email and the exception text.
JobRecordsFirst ==
    /\ Len(results.failed_details) >= Len(failures)
    /\ \A r \in 1..Len(failures) : results.failed_details[r] = OwedRecord(failures[r])

\* No job is both sent and recorded as failed, and none is recorded twice.
JobRecordsDisjoint ==
    /\ \A r \in 1..Len(failures) : \A t \in 1..Len(transmitted) :
            failures[r].idx # transmitted[t]
    /\ \A r1, r2 \in 1..Len(failures) : failures[r1].idx = failures[r2].idx => r1 = r2

\* C3 as claimed: with the connection established, failed_details holds
\* exactly the records of the jobs that raised, so len(failed_details) == failed.
C3_Original ==
    (Returned /\ Established) =>
        /\ JobRecordsFirst
        /\ Len(results.failed_details) = Len(failures)
        /\ Len(results.failed_details) = results.failed

\* C3 amended: with the connection established, failed_details holds one
\* record per job that raised and none for a sent job, each with the job's
\* row_index (or list position), to_email and exception text; when the
\* callback, the delay or the teardown raised, one synthetic record
\* (row_index -1) follows them and failed also counts the jobs never
\* attempted. len(failed_details) == failed when nothing but jobs raised.
C3_FailureRecords ==
    (Returned /\ Established) =>
        /\ JobRecordsFirst
        /\ JobRecordsDisjoint
        /\ Len(results.failed_details) = Len(failures) + (IF cause = NoExc THEN 0 ELSE 1)
        /\ cause # NoExc =>
            results.failed_details[Len(failures) + 1].row_index = -1
        /\ results.failed = Len(failures) + (Total - Len(attempts))
        /\ results.sent = Len(transmitted)
        /\ cause = NoExc => Len(results.failed_details) = results.failed

\* C3 witness: a batch ran through in which a job carrying row_index 7 raised
\* at list position 1, a job without row_index raised at position 2 and the
\* first job was sent.
C3_Witness ==
    /\ RanThrough
    /\ Established
    /\ Total = 3
    /\ transmitted = <<0>>
    /\ Len(failures) = 2
    /\ email_data_list[2].row_index = <<7>>
    /\ email_data_list[3].row_index = <<>>
    /\ results.failed_details[1].row_index = 7
    /\ results.failed_details[2].row_index = 2

\* C4: every call ends by returning a Batch Result, whatever raised; the
\* result's total is the number of jobs and sent + failed = total.
C4_AlwaysReturnsResult ==
    /\ pc \in {"connect", "starttls", "login", "callback", "job", "sleep", "exit",
               "except", "done"}
    /\ pc = "except" => exc # NoExc
    /\ results.total = Total
    /\ Returned => results.sent + results.failed = results.total
    /\ ~Returned => results.sent + results.failed <= results.total

\* C4 witness: the delay raised after one sent job of three; the result
\* counts the two others as failed.
C4_Witness ==
    /\ Returned
    /\ cause = "sleep"
    /\ Total = 3
    /\ results.sent = 1
    /\ results.failed = 2

\* C5: one connection per call: at most one connect, one STARTTLS and one
\* login ever, exactly one of each behind every attempted job, however many
\* jobs there are and however many fail; nothing reconnects between jobs.
C5_OneConnection ==
    /\ connects <= 1
    /\ starttlsCalls <= 1
    /\ logins <= 1
    /\ pc # "connect" => connects = 1
    /\ pc \in {"callback", "job", "sleep"} =>
        connects = 1 /\ starttlsCalls = 1 /\ logins = 1
    /\ attempts # <<>> => connects = 1 /\ starttlsCalls = 1 /\ logins = 1
    /\ (Returned /\ cause \notin {"connect", "starttls"}) => logins = 1
    /\ (Returned /\ cause # "connect") => starttlsCalls = 1

\* C5 witness: three jobs, all failed, the connection lost at the first.
C5_Witness ==
    /\ Returned
    /\ Total = 3
    /\ Len(failures) = 3
    /\ failures[1].err = "server disconnected"
    /\ connects = 1

\* C6: a connection that was opened is closed when the call returns, on
\* every path, by exactly one run of the teardown; and once the connection is
\* closed no message is transmitted.
C6_ConnectionClosed ==
    /\ [](Returned => server # "open")
    /\ [](Returned => (exits = IF cause = "connect" THEN 0 ELSE 1))
    /\ [](Returned => (server = "none" <=> cause = "connect"))
    /\ [](exits > 0 => server = "closed" /\ pc \in {"except", "done"})
    /\ [][server = "closed" => transmitted' = transmitted]_vars

\* C6 witness: STARTTLS succeeded, login raised, and the connection is
\* closed when the call has returned.
C6_Witness ==
    /\ Returned
    /\ cause = "login"
    /\ server = "closed"
    /\ exits = 1

\* C7: with the connection established the dispatcher sleeps once after each
\* job except the last, sent or failed, each sleep between job i and job
\* i+1, never after the final job: n jobs, all attempted, make n-1 sleeps.
C7_SleepBetweenJobs ==
    /\ \A s \in 1..Len(sleeps) : sleeps[s] = s - 1 /\ sleeps[s] < Total - 1
    /\ Len(sleeps) <= Len(attempts)
    /\ Len(attempts) <= Len(sleeps) + 1
    /\ (pc \in {"callback", "job"}) => Len(sleeps) = Len(attempts)
    /\ (Returned /\ Len(attempts) = Total /\ Total >= 1) => Len(sleeps) = Total - 1
    /\ (delay_seconds >= 0 /\ pc # "sleep" /\ attempts # <<>>) =>
        Len(sleeps) >= (IF Len(attempts) = Total THEN Total - 1 ELSE Len(attempts))

\* C7 witness: three jobs, the second failed, two sleeps.
C7_Witness ==
    /\ Returned
    /\ Total = 3
    /\ transmitted = <<0, 2>>
    /\ Len(failures) = 1
    /\ sleeps = <<0, 1>>

\* C8 as claimed: the callback is invoked after its job has been attempted,
\* with current the number of jobs completed so far.
C8_Original ==
    \A c \in 1..Len(callbacks) :
        /\ callbacks[c].args.current = callbacks[c].completed
        /\ callbacks[c].completed >= 1

\* C8 amended: the callback, when one is passed, is invoked once per job,
\* immediately before that job is attempted, with (current, total, status)
\* where total is the batch size and current is the 1-based position of the
\* job about to be attempted, one more than the number of jobs completed;
\* over a batch the current values are 1, 2, ... in this order, up to total
\* when all jobs are attempted.
C8_CallbackBeforeEachJob ==
    /\ ~progress_callback => callbacks = <<>>
    /\ progress_callback =>
        /\ \A c \in 1..Len(callbacks) :
            /\ callbacks[c].args.current = c
            /\ callbacks[c].args.total = Total
            /\ callbacks[c].completed = c - 1
        /\ Len(attempts) <= Len(callbacks)
        /\ Len(callbacks) <= Len(attempts) + 1
        /\ pc = "job" => Len(callbacks) = Len(attempts) + 1
        /\ Len(attempts) = Total => Len(callbacks) = Total

\* C8 witness: three jobs, three invocations, the last with current = 3.
C8_Witness ==
    /\ Returned
    /\ progress_callback
    /\ Total = 3
    /\ Len(callbacks) = 3
    /\ callbacks[3].args.current = 3
    /\ Len(attempts) = 3

\* C9: the jobs are attempted in list order, one at a time: each attempted
\* job is sent or recorded as failed before the next one starts, and the
\* records of failed_details stand in the order of the attempts.
C9_ListOrder ==
    /\ \A a \in 1..Len(attempts) : attempts[a] = a - 1
    /\ Len(transmitted) + Len(failures) = Len(attempts)
    /\ results.sent + results.failed >= Len(attempts)
    /\ pc \in {"callback", "job", "sleep"} => results.sent + results.failed = Len(attempts)
    /\ \A r1, r2 \in 1..Len(failures) : r1 < r2 => failures[r1].idx < failures[r2].idx
    /\ \A t1, t2 \in 1..Len(transmitted) : t1 < t2 => transmitted[t1] < transmitted[t2]
    /\ JobRecordsFirst

\* C9 witness: jobs 0 and 2 of three failed, to different recipients, and
\* their records stand in this order.
C9_Witness ==
    /\ Returned
    /\ Total = 3
    /\ Len(failures) = 2
    /\ failures[1].idx = 0
    /\ failures[2].idx = 2
    /\ results.failed_details[1].email # results.failed_details[2].email
    /\ results.failed_details[1].email = email_data_list[1].to_email

\* ------------------------------------------------- generate_document: claims

\* C10: generate_document never changes the processor: after any calls, with
\* any rows and reserved lists, template_bytes is the bytes given at
\* construction, template_doc is their parse and the placeholder set is the
\* one discovered at construction; so every generation returns what the same
\* call returns on a processor freshly made from those bytes.
C10_GenerateLeavesProcessor ==
    /\ processor.template_bytes = given
    /\ processor.template_doc = Document(given)
    /\ Save(processor.template_doc) = given
    /\ processor.placeholders = ExtractPlaceholders(Document(given))
    /\ \A c \in 1..Len(generated) :
        generated[c].output =
            generate_document(NewProcessor(given), generated[c].data,
                              generated[c].preserved, generated[c].order).output

\* C10 witness: two generations on one processor, the first of which
\* replaced a token (its bytes differ from the template's), the second with
\* another row.
C10_Witness ==
    /\ Len(generated) = 2
    /\ generated[1].output # given
    /\ generated[1].data # generated[2].data
    /\ generated[2].output # generated[1].output

\* ---------------------------------------------- claims on the document tree

RECURSIVE Flatten(_)
\* The members of a sequence of sequences, in order.
Flatten(seqs) == IF seqs = <<>> THEN <<>> ELSE Head(seqs) \o Flatten(Tail(seqs))

RECURSIVE ParagraphsOf(_)
\* Every paragraph of a container, those of its tables at every depth
\* included, in a fixed order.
ParagraphsOf(container) ==
    container.paragraphs
        \o Flatten([t \in 1..Len(container.tables) |->
                      Flatten([c \in 1..Len(container.tables[t]) |->
                                 ParagraphsOf(container.tables[t][c])])])

\* Every paragraph of a document.
AllParagraphs(doc) ==
    ParagraphsOf(doc.body) \o ParagraphsOf(doc.header) \o ParagraphsOf(doc.footer)

\* The names of the tokens of every paragraph of a document.
AllTokens(doc) ==
    UNION {ExtractPlaceholdersFromText(Concat(AllParagraphs(doc)[k])) :
              k \in 1..Len(AllParagraphs(doc))}

\* The number of places of text where the piece stands.
Occurrences(text, piece) ==
    Cardinality({i \in 1..Len(text) :
                    /\ i + Len(piece) - 1 <= Len(text)
                    /\ SubSeq(text, i, i + Len(piece) - 1) = piece})

\* The reserved token as it stands in a template.
SignatureToken == <<"{">> \o Signature \o <<"}">>

\* The paragraphs of the template and those of the c-th generated document.
Before == AllParagraphs(Document(given))
After(c) == AllParagraphs(Document(generated[c].output))

\* C11: every token of the template, in whatever paragraph substitution goes
\* through (body, tables, tables nested in cells, header, footer), is in the
\* discovered placeholder set.
C11_DiscoveryCoversSubstitution ==
    AllTokens(Document(given)) \subseteq processor.placeholders

\* C12: with the default reserved list, every generated document holds the
\* reserved token wherever the template holds it, whatever the row and the
\* other placeholders of the template.
C12_ReservedLeftIntact ==
    \A c \in 1..Len(generated) :
        PreservedOrDefault(generated[c].preserved) = {Signature} =>
            \A k \in 1..Len(Before) :
                Occurrences(Concat(After(c)[k]), SignatureToken)
                    >= Occurrences(Concat(Before[k]), SignatureToken)

\* No value of the replacement dictionary holds a brace.
BraceFree(replacements) ==
    \A key \in DOMAIN replacements : \A i \in 1..Len(replacements[key]) :
        replacements[key][i] \notin {"{", "}"}

\* C13: in every generated document, a paragraph whose text is the
\* template's has the template's runs; a paragraph whose text changed has as
\* many runs as before, the first holding the whole text and the others
\* empty; and no token of a replaced placeholder is left in it, even one
\* that was split over runs.
C13_SplitRunsReplaced ==
    \A c \in 1..Len(generated) :
        /\ Len(After(c)) = Len(Before)
        /\ \A k \in 1..Len(Before) :
            LET p == Before[k]
                q == After(c)[k]
            IN  /\ Concat(q) = Concat(p) => q = p
                /\ Concat(q) # Concat(p) =>
                       /\ Len(q) = Len(p)
                       /\ q[1] = Concat(q)
                       /\ \A j \in 2..Len(q) : q[j] = <<>>
                /\ BraceFree(generated[c].replacements) =>
                       \A name \in ExtractPlaceholdersFromText(Concat(q)) :
                           \A key \in DOMAIN generated[c].replacements :
                               LowerText(name) # LowerText(key)

\* C13 witness: a generation that replaced a token split over two runs, so
\* that the first run holds the value and the second is empty, and left a
\* two-run paragraph without tokens as it was.
C13_Witness ==
    \E c \in 1..Len(generated) : \E k, m \in 1..Len(Before) :
        /\ Len(Before[k]) = 2
        /\ FindAll(Before[k][1]) = <<>> /\ FindAll(Before[k][2]) = <<>>
        /\ After(c)[k] = <<<<"1">>, <<>>>>
        /\ Len(Before[m]) = 2
        /\ After(c)[m] = Before[m]

\* C14: the replacement dictionary of every generation holds, for each
\* discovered placeholder that is not reserved, the value of the row key
\* equal to it if there is one, otherwise the value of the first row key
\* equal to it ignoring case, otherwise the empty string.
C14_PlaceholderResolution ==
    \A c \in 1..Len(generated) :
        LET data == generated[c].data
            replacements == generated[c].replacements
        IN  /\ DOMAIN replacements =
                   processor.placeholders \ PreservedOrDefault(generated[c].preserved)
            /\ \A p \in DOMAIN replacements :
                LET exact == {k \in 1..Len(data) : data[k].key = p}
                    loose == {k \in 1..Len(data) : LowerText(data[k].key) = LowerText(p)}
                IN  /\ exact # {} => \A k \in exact : replacements[p] = data[k].value
                    /\ exact = {} /\ loose # {} =>
                           \E k \in loose : /\ \A j \in loose : k <= j
                                            /\ replacements[p] = data[k].value
                    /\ loose = {} => replacements[p] = <<>>

\* C14 witness: on one processor, a generation whose row holds the exact key
\* after a key that differs in case (the exact key's value is taken), and a
\* generation whose row holds only a key that differs in case.
C14_Witness ==
    \E c, d \in 1..Len(generated) :
        /\ <<"a">> \in DOMAIN generated[c].replacements
        /\ Len(generated[c].data) = 2
        /\ generated[c].data[1].key = <<"A">>
        /\ generated[c].data[2].key = <<"a">>
        /\ generated[c].replacements[<<"a">>] = generated[c].data[2].value
        /\ generated[c].data[1].value # generated[c].data[2].value
        /\ <<"A">> \in DOMAIN generated[d].replacements
        /\ Len(generated[d].data) = 1
        /\ generated[d].data[1].key = <<"a">>
        /\ generated[d].replacements[<<"A">>] = generated[d].data[1].value

\* ------------------------------------------------- claims on auto-mapping

\* The column the three tiers give a placeholder: <<c>>, or <<>> for none.
TierChoice(p, cols) ==
    LET exact == {k \in 1..Len(cols) : cols[k] = p}
        loose == {k \in 1..Len(cols) : LowerText(cols[k]) = LowerText(p)}
        partial == {k \in 1..Len(cols) :
                       \/ IsIn(LowerText(p), LowerText(cols[k]))
                       \/ IsIn(LowerText(cols[k]), LowerText(p))}
    IN  IF exact # {} THEN <<cols[Least(exact)]>>
        ELSE IF loose # {} THEN <<cols[Least(loose)]>>
        ELSE IF partial # {} THEN <<cols[Least(partial)]>>
        ELSE <<>>

\* The column a mapping holds for a placeholder: <<c>>, or <<>> for none.
Mapped(items, p) == IF DictHas(items, p) THEN <<DictGet(items, p)>> ELSE <<>>

\* C15: in both front ends the auto-mapping gives every placeholder the
\* first column of the first tier that matches (exact, equal ignoring case,
\* substring ignoring case in either direction), and nothing when no tier
\* matches.
C15_TieredAutoMapping ==
    /\ "streamlit" \in shown =>
           \A k \in 1..Len(placeholder_list) :
               Mapped(column_mapping, placeholder_list[k])
                   = TierChoice(placeholder_list[k], columns)
    /\ "fastapi" \in shown =>
           \A k \in 1..Len(placeholder_list) :
               Mapped(auto_mapping, placeholder_list[k])
                   = TierChoice(placeholder_list[k], columns)

\* --------------------------------------------- claims on get_data_as_dicts

\* The keys col_Words of the columns of a row.
DerivedKeys(row) == {row[k].key \o WordsSuffix : k \in 1..Len(row)}

\* C16 as stated: with a mapping, every returned row holds under each
\* placeholder the formatted value of its mapped column and under each
\* original column name the formatted value of that column.
C16_Original ==
    (data_called /\ mapping # <<>>) =>
        \A r \in 1..Len(df) :
            /\ \A i \in 1..Len(mapping) :
                DictHas(df[r], mapping[i].value) =>
                    /\ DictHas(data_rows[r], mapping[i].key)
                    /\ DictGet(data_rows[r], mapping[i].key)
                           = FormatValue(DictGet(df[r], mapping[i].value))
            /\ \A k \in 1..Len(df[r]) :
                /\ DictHas(data_rows[r], df[r][k].key)
                /\ DictGet(data_rows[r], df[r][k].key) = FormatValue(df[r][k].value)

\* C16, amended: with a mapping, every returned row holds under each
\* placeholder the formatted value of its mapped column (the empty string
\* when the data has no such column), and under each original column name
\* that is not a placeholder the formatted value of that column; keys of the
\* form col_Words, for a column col, are excepted.
C16_MappedRows ==
    (data_called /\ mapping # <<>>) =>
        /\ Len(data_rows) = Len(df)
        /\ \A r \in 1..Len(df) :
            /\ \A i \in 1..Len(mapping) :
                mapping[i].key \notin DerivedKeys(df[r]) =>
                    /\ DictHas(data_rows[r], mapping[i].key)
                    /\ DictGet(data_rows[r], mapping[i].key)
                           = IF DictHas(df[r], mapping[i].value)
                             THEN FormatValue(DictGet(df[r], mapping[i].value))
                             ELSE <<>>
            /\ \A k \in 1..Len(df[r]) :
                (df[r][k].key \notin DerivedKeys(df[r]) /\ ~DictHas(mapping, df[r][k].key)) =>
                    /\ DictHas(data_rows[r], df[r][k].key)
                    /\ DictGet(data_rows[r], df[r][k].key) = FormatValue(df[r][k].value)

\* C16 witness: a call whose mapping names a placeholder as a column and
\* maps it to another column with another value: the row holds the mapped
\* column's value under that name, and the other column under its own.
C16_Witness ==
    /\ data_called
    /\ Len(df) = 1
    /\ \E i \in 1..Len(mapping) :
        /\ DictHas(df[1], mapping[i].key)
        /\ DictHas(df[1], mapping[i].value)
        /\ mapping[i].key # mapping[i].value
        /\ FormatValue(DictGet(df[1], mapping[i].key))
               # FormatValue(DictGet(df[1], mapping[i].value))
        /\ DictGet(data_rows[1], mapping[i].key)
               = FormatValue(DictGet(df[1], mapping[i].value))
        /\ DictGet(data_rows[1], mapping[i].value)
               = FormatValue(DictGet(df[1], mapping[i].value))

\* A number, or a text of digits with commas and at most one dot.
IsNumberOrNumericText(value) ==
    \/ value.kind \in {"int", "float"}
    \/ /\ value.kind = "str"
       /\ \E i \in 1..Len(value.text) : value.text[i] \in Digits
       /\ \A i \in 1..Len(value.text) : value.text[i] \in Digits \cup {",", "."}
       /\ Cardinality({i \in 1..Len(value.text) : value.text[i] = "."}) <= 1

\* C17: with and without a mapping, a returned row has the key col_Words
\* exactly when the value of column col is a number or a numeric-looking
\* text; a null and a non-numeric value give no such key. (Names col_Words
\* that are themselves a column or a placeholder are left aside.)
C17_WordsKeyIffNumeric ==
    data_called =>
        \A r \in 1..Len(df) : \A k \in 1..Len(df[r]) :
            LET key == df[r][k].key \o WordsSuffix
            IN  (~DictHas(df[r], key) /\ ~DictHas(mapping, key)) =>
                    (DictHas(data_rows[r], key) <=> IsNumberOrNumericText(df[r][k].value))

\* ----------------------------------------------- claims on batch generation

\* text ends in ".docx"
EndsInExtension(text) ==
    /\ Len(text) >= Len(Extension)
    /\ SubSeq(text, Len(text) - Len(Extension) + 1, Len(text)) = Extension

\* C18: every filename of a generated document, in the Streamlit loop and
\* in generate_documents, under the auto, the single-column and the pattern
\* strategy, ends in .docx and holds none of < > : " / \ | ? *.
C18_FilenamesClean ==
    \A d \in 1..Len(documents) :
        /\ EndsInExtension(documents[d].filename)
        /\ \A i \in 1..Len(documents[d].filename) :
            documents[d].filename[i] \notin {"<", ">", ":", "\"", "/", "\\", "|", "?", "*"}

\* C18 witness: a generation under the pattern strategy whose joined parts
\* held forbidden characters, from a column value and from a separator, and
\* whose second document is named by the same strategy.
C18_Witness ==
    /\ front = "streamlit"
    /\ filename_config.mode = "pattern"
    /\ Len(documents) = 2
    /\ \E i \in 1..Len(gen_rows[1][2].value) : gen_rows[1][2].value[i] = "\\"
    /\ \E k \in 1..Len(filename_config.pattern) :
        /\ filename_config.pattern[k].type = "separator"
        /\ \E i \in 1..Len(filename_config.pattern[k].value) :
               filename_config.pattern[k].value[i] = ":"
    /\ Len(documents[1].filename) > Len(Extension)

\* C19: when the document of a row fails, what reaches the caller names the
\* index of that row, and the generation has not returned a document list.
C19_FailureNamesRow ==
    gen_pc \in {"raised", "reported"} =>
        /\ gen_error.row_index \in {<<row_idx>>, <<row_idx + 1>>}
        /\ generated_docs \in EarlierDocs

\* ----------------------------------------------- claims on render_template

RECURSIVE OnePass(_, _, _)
\* The template from position i on with every token {key} of a key of the
\* row replaced by the key's value, read off the template alone.
OnePass(template, data, i) ==
    IF i > Len(template) THEN <<>>
    ELSE LET hits == {k \in 1..Len(data) :
                         StartsAt(template, i, <<"{">> \o data[k].key \o <<"}">>)}
         IN  IF hits = {} THEN <<template[i]>> \o OnePass(template, data, i + 1)
             ELSE LET k == CHOOSE h \in hits : TRUE
                  IN  data[k].value
                          \o OnePass(template, data, i + Len(data[k].key) + 2)

\* C20: render_template returns the template with every occurrence of
\* {key}, for each key of the row, replaced by the key's value, and with
\* every other token as it stands in the template.
C20_RenderTemplate ==
    render_called => rendered = OnePass(email_template, email_row, 1)

\* -------------------------------------------- claims on the callback's raise

\* C21: a raise of the progress callback does not stop the dispatch: in a
\* call whose callback raised, every job is attempted and the counts are the
\* jobs' own outcomes.
C21_CallbackCannotStop ==
    (Returned /\ cause = "callback") =>
        /\ \A i \in 0..(Total - 1) : Attempted(i)
        /\ results.sent = Len(transmitted)
        /\ results.failed = Len(failures)

\* C23: with the default reserved list, every generated document holds the
\* anchor of the signature tab wherever the template holds it.
C23_AnchorPreserved ==
    \A c \in 1..Len(generated) :
        PreservedOrDefault(generated[c].preserved) = {Signature} =>
            \A k \in 1..Len(Before) :
                Occurrences(Concat(After(c)[k]), AnchorString)
                    >= Occurrences(Concat(Before[k]), AnchorString)

\* C27: the documents a call produces do not depend on the order in which
\* the entries of its replacement dictionary are applied: every order gives
\* the output the call gave.
C27_OrderIndependent ==
    \A c \in 1..Len(generated) :
        \A order \in Orders(DOMAIN generated[c].replacements) :
            Save(ReplaceInDocument(Document(given), generated[c].replacements, order))
                = generated[c].output

\* ------------------------------------------------ claims on the detail table

\* The call is one the Streamlit send flow makes: a progress callback, a
\* positive delay, every job with the index of its row and no two jobs of
\* one row.
StreamlitCall ==
    /\ progress_callback
    /\ delay_seconds > 0
    /\ \A k \in 1..Total : email_data_list[k].row_index # NoRowIndex
    /\ \A k, l \in 1..Total :
          email_data_list[k].row_index = email_data_list[l].row_index => k = l

\* The lines of the detail table with this status.
LinesWith(status) ==
    {k \in 1..Total : DetailedResults(email_data_list, results)[k].Status = status}

\* C24: after a batch of the Streamlit flow the detail table agrees with the
\* summary: a job shown as Sent was transmitted, as many jobs are shown as
\* Sent as the summary counts sent and as many as Failed as it counts failed.
C24_DetailAgreesWithSummary ==
    (Returned /\ StreamlitCall) =>
        /\ \A k \in LinesWith("Sent") :
              \E t \in 1..Len(transmitted) : transmitted[t] = k - 1
        /\ Cardinality(LinesWith("Sent")) = results.sent
        /\ Cardinality(LinesWith("Failed")) = results.failed

\* ------------------------------------------------------ claims on the queue

\* C29: once an item has the status Sent, no step transmits it again or gives
\* it another status.
C29_SentIsFinal ==
    [][\A i \in 1..Len(queue_file) :
          queue_file[i].status = "Sent" =>
              /\ queue_file'[i].status = "Sent"
              /\ (deliveries' # deliveries =>
                     deliveries'[Len(deliveries')] # i - 1)]_vars

\* The requests other than r that have the index of r.
SameIndex(r) == {q \in 1..Len(requests) : q # r /\ requests[q].index = requests[r].index}

\* The status the handler of request r sets.
StatusOf(r) ==
    IF requests[r].kind = "skip" THEN "Skipped"
    ELSE IF requests[r].success THEN "Sent" ELSE "Failed"

\* C30: when a /send-single and a /skip-single request for two items of the
\* queue, the only requests for those items, have both returned, the file
\* holds for each item the status its request set.
C30_NoLostUpdate ==
    \A r, q \in 1..Len(requests) :
        ( /\ requests[r].kind = "send" /\ requests[q].kind = "skip"
          /\ requests[r].at = "done" /\ requests[q].at = "done"
          /\ InQueue(queue_file, requests[r].index)
          /\ InQueue(queue_file, requests[q].index)
          /\ requests[r].index # requests[q].index
          /\ SameIndex(r) = {} /\ SameIndex(q) = {} )
        => /\ queue_file[requests[r].index + 1].status = StatusOf(r)
           /\ queue_file[requests[q].index + 1].status = StatusOf(q)

\* C28: in the Streamlit flow no step of a generation but its successful end
\* changes the session's generated_docs: when a row has raised, the list is
\* the one the session held when the button was pressed.
C28_FailureKeepsGeneratedDocs ==
    [][(front = "streamlit" /\ gen_pc' \in {"loop", "reported"})
          => generated_docs' = generated_docs]_vars

\* A Streamlit generation that held an earlier list has failed after it had
\* appended a document.
C28_Witness ==
    /\ front = "streamlit"
    /\ gen_pc = "reported"
    /\ documents # <<>>
    /\ generated_docs # <<>>
    /\ generated_docs # documents

\* ---------------------------------------------- claims on the Streamlit session

\* C22: every generation ran with each placeholder of the loaded template
\* mapped to a column of the loaded data.
C22_GenerationOnlyWhenMapped ==
    last_generation # <<>> =>
        \A k \in 1..Len(last_generation[1].placeholders) :
            /\ DictHas(last_generation[1].mapping, last_generation[1].placeholders[k])
            /\ \E c \in 1..Len(last_generation[1].columns) :
                  last_generation[1].columns[c]
                      = DictGet(last_generation[1].mapping,
                                last_generation[1].placeholders[k])

\* C26: when the send section is shown, generated_docs has one entry per row
\* of the loaded data, and every job attaches the document generated from
\* its own row of that data.
C26_JobAttachesOwnRow ==
    (current_tab = 4 /\ session_docs # <<>> /\ data_handler # <<>>) =>
        /\ Len(session_docs) = data_handler[1].rows
        /\ \A k \in 1..Len(SessionJobs) :
              SessionJobs[k].attachment
                  = <<[data |-> data_handler[1].name, row |-> SessionJobs[k].row_index]>>

\* ------------------------------------------ claims on the send section

\* C25: the job list handed to the dispatcher holds no two jobs of one row
\* and no job of a row in skip_rows.
C25_OneJobPerRow ==
    confirmed =>
        /\ \A k, l \in 1..Len(send_list) :
              send_list[k].row_index = send_list[l].row_index => k = l
        /\ \A k \in 1..Len(send_list) : send_list[k].row_index \notin skip_rows

====
